---- MODULE Spec2Model ----
(***************************************************************************)
(* Job orchestration of the ai-ocr services.                               *)
(*                                                                         *)
(* The API service (documents / jobs endpoints, job_service,               *)
(* document_service) and the processor service (process_document and the   *)
(* /api/process and /api/cancel handlers) share one database holding the   *)
(* documents, jobs and extractions tables.  Every await of a handler is a  *)
(* point where the other handlers and background tasks may run, so each    *)
(* handler is cut into steps at the awaits whose order matters.            *)
(*                                                                         *)
(* Conventions: UUIDs are small naturals handed out in order, progress     *)
(* floats (10.0, 20.0, ...) are the integers 10, 20, ..., an absent keyword *)
(* argument (None) is NoProgress / NoError, and the SQL of DBClient is      *)
(* taken by its text (COALESCE(:x, x) keeps the column when :x is NULL).    *)
(* Records returned by DBClient.get_document are read by field.  The        *)
(* database executes every statement it is given; the failures kept are    *)
(* the INSERT of create_extraction, which the pipeline ignores, and, under *)
(* the fair scheduler of SpecLive, the last status write of a run.         *)
(*                                                                         *)
(* ExcelValidator, SchemaValidator and the parser, extractor and validator *)
(* factories are modelled next to the services, each with the callers that *)
(* use it: Python values are tagged records, an exception is a value the   *)
(* caller receives, and a text the code inspects character by character is *)
(* the sequence of its characters.  The two ExcelParser classes read       *)
(* workbooks given by their sheets, get_extractor_for_file resolves file   *)
(* extensions, and validate_file answers uploads given by name and size.   *)
(***************************************************************************)
EXTENDS Integers, Sequences, FiniteSets, Bags, TLC

\* ---- bounds of the model ------------------------------------------------
MaxDocs == 2
MaxJobs == 1
MaxRuns == 2
MaxCancels == 1
MaxExtractions == 2
\* process requests the processor accepts while its worker limit is examined
MaxTasks == 3
\* validate calls made on the validators
MaxCalls == 3
\* validator instances
MaxInstances == 2
\* the longest amount text the callers of SchemaValidator hand in
MaxAmountLen == 3

VARIABLES
    documents,    \* documents table: id -> [status, file_extension]
    nextDoc,      \* next fresh document id
    uploads,      \* create_document calls between their commit and create_job
    jobs,         \* jobs table, indexed by job id
    extractions,  \* extractions table: a bag of rows
    runs,         \* background tasks running process_document
    tempFiles,    \* files in TEMP_DIR, named by the run that created them
    cancels       \* cancel requests accepted by cancel_processing_job

vars == <<documents, nextDoc, uploads, jobs, extractions, runs, tempFiles,
          cancels>>

\* The validators and the registries are objects of their own: no handler of the
\* orchestration reads or writes them.
VARIABLES
    data,                \* the dict a caller hands to ExcelValidator.validate
    validation_results,  \* what ExcelValidator.validate returned last
    extracted_data,      \* the dict a caller hands to SchemaValidator.validate
    validation_result,   \* what SchemaValidator.validate returned last
    calls,               \* the validate calls made so far, in order
    registry             \* the class-level dicts of the three factories

libraryVars == <<data, validation_results, extracted_data, validation_result,
                 calls, registry>>

allVars == <<vars, libraryVars>>

\* ---- JSON values -----------------------------------------------------------
\* A Python value is a record tagged with its type; a dict is a function from
\* its keys, so that  key \in DOMAIN d  is Python's  key in d.
Null == [type |-> "null"]
Str(s) == [type |-> "str", v |-> s]
List(items) == [type |-> "list", v |-> items]
Dict(d) == [type |-> "dict", v |-> d]
EmptyDict == Dict(<<>>)

\* d.get(key, default)
Get(d, key, default) == IF key \in DOMAIN d THEN d[key] ELSE default

\* bool(x)
Truthy(x) ==
    CASE x.type = "null" -> FALSE
      [] x.type = "str" -> x.v # ""
      [] x.type = "list" -> x.v # <<>>
      [] x.type = "dict" -> DOMAIN x.v # {}
      [] x.type = "number" -> x.v # 0

\* isinstance(d.get(key), list)
IsList(d, key) == key \in DOMAIN d /\ d[key].type = "list"

\* The concatenation of a sequence of sequences.
RECURSIVE Flatten(_)
Flatten(ss) == IF ss = <<>> THEN <<>> ELSE Head(ss) \o Flatten(Tail(ss))

\* The sum of a sequence of numbers.
RECURSIVE Sum(_)
Sum(ns) == IF ns = <<>> THEN 0 ELSE Head(ns) + Sum(Tail(ns))

\* No validator has been called and no factory has been used.
LibraryIdle ==
    /\ data = Null
    /\ validation_results = Null
    /\ extracted_data = Null
    /\ validation_result = Null
    /\ calls = <<>>
    /\ registry = Null

\* ---- values --------------------------------------------------------------
NoProgress == -1
NoError == "None"

JobStatuses == {"pending", "processing", "completed", "failed", "canceled"}
TerminalStatuses == {"completed", "failed", "canceled"}
DocumentStatuses == {"uploaded", "processing", "processed", "error"}
FileExtensions == {"xlsx", "pdf"}
SupportedExtensions == {"xlsx", "xls", "csv"}

DocIds == 1..MaxDocs
\* A document id that no upload ever hands out.
UnknownDocument == 0
JobIds == 1..MaxJobs

\* ---- DBClient ------------------------------------------------------------
\* UPDATE jobs SET status = :status, progress = COALESCE(:progress, progress),
\*                 error = COALESCE(:error, error) WHERE id = :job_id
update_job_status(js, job_id, status, progress, error) ==
    IF job_id \in DOMAIN js
    THEN [js EXCEPT ![job_id] =
            [@ EXCEPT !.status = status,
                      !.progress = IF progress = NoProgress THEN @ ELSE progress,
                      !.error = IF error = NoError THEN @ ELSE error]]
    ELSE js

\* UPDATE documents SET status = :status WHERE id = :document_id
update_document_status(ds, document_id, status) ==
    IF document_id \in DOMAIN ds
    THEN [ds EXCEPT ![document_id].status = status]
    ELSE ds

\* The foreign keys of the extractions table (job_id, document_id).
ExtractionKeysExist(job_id, document_id) ==
    /\ job_id \in DOMAIN jobs
    /\ document_id \in DOMAIN documents

\* INSERT INTO extractions (...) VALUES (...)
create_extraction(es, job_id, document_id, valid) ==
    es (+) SetToBag({[job_id |-> job_id, document_id |-> document_id,
                      valid |-> valid]})

\* The rows that reference a document through a foreign key.
DocumentReferenced(document_id) ==
    \/ \E j \in DOMAIN jobs : jobs[j].document_id = document_id
    \/ \E e \in BagToSet(extractions) : e.document_id = document_id

\* The services right after start: empty tables, no request in flight.
ServicesIdle ==
    /\ documents = <<>>
    /\ nextDoc = 1
    /\ uploads = {}
    /\ jobs = <<>>
    /\ extractions = EmptyBag
    /\ runs = <<>>
    /\ tempFiles = {}
    /\ cancels = <<>>

Init == ServicesIdle /\ LibraryIdle

\* ---- API service: documents and jobs -------------------------------------
\* Background task queued by api_process_document.
NewRun(job_id, document_id) ==
    [job_id |-> job_id, document_id |-> document_id, pc |-> "queued",
     file_extension |-> "", validation_results |-> "none"]

\* job_service.create_job after its document check: the job row, then the POST
\* to /api/process, whose failure is logged and ignored.
create_job(document_id, notified) ==
    /\ Len(jobs) < MaxJobs
    /\ notified => Len(runs) < MaxRuns
    /\ jobs' = Append(jobs, [document_id |-> document_id, status |-> "pending",
                             progress |-> 0, error |-> NoError])
    /\ runs' = IF notified
               THEN Append(runs, NewRun(Len(jobs) + 1, document_id))
               ELSE runs

\* The document check of create_job: ValueError when the document is missing.
DocumentExists(document_id) == document_id \in DOMAIN documents

\* upload_document up to the commit of create_document.
upload_document(ext) ==
    /\ nextDoc <= MaxDocs
    /\ documents' = documents @@
                    (nextDoc :> [status |-> "uploaded", file_extension |-> ext])
    /\ uploads' = uploads \cup {nextDoc}
    /\ nextDoc' = nextDoc + 1
    /\ UNCHANGED <<jobs, extractions, runs, tempFiles, cancels>>
    /\ UNCHANGED libraryVars

\* The rest of create_document: create_job for the new document.
create_document_job(d, notified) ==
    /\ d \in uploads
    /\ uploads' = uploads \ {d}
    /\ IF DocumentExists(d)
       THEN create_job(d, notified)
       ELSE UNCHANGED <<jobs, runs>>
    /\ UNCHANGED <<documents, nextDoc, extractions, tempFiles, cancels>>
    /\ UNCHANGED libraryVars

\* POST /jobs/?document_id=...
create_processing_job(d, notified) ==
    /\ IF DocumentExists(d)
       THEN create_job(d, notified)
       ELSE UNCHANGED <<jobs, runs>>
    /\ UNCHANGED <<documents, nextDoc, uploads, extractions, tempFiles, cancels>>
    /\ UNCHANGED libraryVars

\* delete_document as it would be with ON DELETE SET NULL / nullable keys: the
\* referencing rows do not stop the delete.
delete_document_unchecked(ds, d) ==
    [x \in DOMAIN ds \ {d} |-> ds[x]]

\* db.delete(document); db.commit(): the jobs and extractions rows that still
\* reference the document (ForeignKey("documents.id"), nullable=False) make the
\* commit fail, and the delete is rolled back.
delete_document(ds, d) ==
    IF DocumentReferenced(d)
    THEN ds
    ELSE [x \in DOMAIN ds \ {d} |-> ds[x]]

\* DELETE /documents/{document_id}
remove_document(d) ==
    /\ d \in DOMAIN documents
    /\ documents' = delete_document(documents, d)
    /\ UNCHANGED <<nextDoc, uploads, jobs, extractions, runs, tempFiles, cancels>>
    /\ UNCHANGED libraryVars

\* POST /documents/{document_id}/process: the synchronous pipeline of the API
\* service (its temporary file is removed in the handler's finally block).  The
\* extraction is filed under document.jobs[0]; without a job the random job id
\* fails the foreign key.
process_uploaded_document(d, valid) ==
    /\ d \in DOMAIN documents
    /\ BagCardinality(extractions) < MaxExtractions
    /\ \E j \in DOMAIN jobs :
          /\ jobs[j].document_id = d
          /\ extractions' = create_extraction(extractions, j, d, valid)
    /\ UNCHANGED <<documents, nextDoc, uploads, jobs, runs, tempFiles, cancels>>
    /\ UNCHANGED libraryVars

\* ---- processor service: POST /api/process --------------------------------
\* The handler checks that the job exists and queues process_document.
api_process_document(job_id, document_id) ==
    /\ job_id \in DOMAIN jobs
    /\ Len(runs) < MaxRuns
    /\ runs' = Append(runs, NewRun(job_id, document_id))
    /\ UNCHANGED <<documents, nextDoc, uploads, jobs, extractions, tempFiles,
                   cancels>>
    /\ UNCHANGED libraryVars

\* ---- processor service: process_document ---------------------------------
RunAt(r, pc) == r \in DOMAIN runs /\ runs[r].pc = pc

\* The task has returned: its locals are gone.
Finished(r) ==
    [runs EXCEPT ![r].pc = "done", ![r].file_extension = ""]

\* finally: os.remove(local_file_path)
RemoveTempFile(files, r) == files \ {r}

\* await db_client.update_job_status(job_id, "processing", progress=10.0)
RunStart(r) ==
    /\ RunAt(r, "queued")
    /\ jobs' = update_job_status(jobs, runs[r].job_id, "processing", 10, NoError)
    /\ runs' = [runs EXCEPT ![r].pc = "get_document"]
    /\ UNCHANGED <<documents, nextDoc, uploads, extractions, tempFiles, cancels>>
    /\ UNCHANGED libraryVars

\* document = await db_client.get_document(document_id)
RunGetDocument(r) ==
    /\ RunAt(r, "get_document")
    /\ IF runs[r].document_id \in DOMAIN documents
       THEN /\ runs' = [runs EXCEPT ![r].pc = "download",
                           ![r].file_extension =
                               documents[runs[r].document_id].file_extension]
            /\ UNCHANGED jobs
       ELSE /\ jobs' = update_job_status(jobs, runs[r].job_id, "failed",
                                         NoProgress, "Document not found")
            /\ runs' = Finished(r)
    /\ UNCHANGED <<documents, nextDoc, uploads, extractions, tempFiles, cancels>>
    /\ UNCHANGED libraryVars

\* MinioClient.download_document: mkstemp creates the file, fget_object fills
\* it; any exception returns None and leaves whatever mkstemp created.
\* "no_file": failed before mkstemp; "failed_get": fget_object raised.
DownloadOutcomes == {"ok", "no_file", "failed_get"}

download_document(files, r, outcome) ==
    IF outcome = "no_file" THEN files ELSE files \cup {r}

RunDownload(r, outcome) ==
    /\ RunAt(r, "download")
    /\ tempFiles' = download_document(tempFiles, r, outcome)
    /\ IF outcome = "ok"
       THEN /\ jobs' = update_job_status(jobs, runs[r].job_id, "processing", 20,
                                         NoError)
            /\ runs' = [runs EXCEPT ![r].pc = "parse"]
       ELSE /\ jobs' = update_job_status(jobs, runs[r].job_id, "failed",
                                         NoProgress, "Failed to download document")
            /\ runs' = Finished(r)
    /\ UNCHANGED <<documents, nextDoc, uploads, extractions, cancels>>
    /\ UNCHANGED libraryVars

\* The except / finally of the inner try: the job fails, the file is removed.
RunFail(r, error) ==
    /\ jobs' = update_job_status(jobs, runs[r].job_id, "failed", NoProgress, error)
    /\ tempFiles' = RemoveTempFile(tempFiles, r)
    /\ runs' = Finished(r)

\* excel_parser.parse, or the unsupported-extension branch.
RunParse(r, ok) ==
    /\ RunAt(r, "parse")
    /\ IF runs[r].file_extension \notin SupportedExtensions
       THEN RunFail(r, "Unsupported file type")
       ELSE IF ~ok
       THEN RunFail(r, "Processing error")
       ELSE /\ jobs' = update_job_status(jobs, runs[r].job_id, "processing", 40,
                                         NoError)
            /\ runs' = [runs EXCEPT ![r].pc = "extract"]
            /\ UNCHANGED tempFiles
    /\ UNCHANGED <<documents, nextDoc, uploads, extractions, cancels>>
    /\ UNCHANGED libraryVars

\* langchain_extractor.extract
\* RunExtract as it would be if the progress write after extraction were left
\* out.
RunExtract_unreported(r, ok) ==
    /\ RunAt(r, "extract")
    /\ IF ~ok
       THEN RunFail(r, "Processing error")
       ELSE /\ runs' = [runs EXCEPT ![r].pc = "validate"]
            /\ UNCHANGED <<jobs, tempFiles>>
    /\ UNCHANGED <<documents, nextDoc, uploads, extractions, cancels>>
    /\ UNCHANGED libraryVars

RunExtract(r, ok) ==
    /\ RunAt(r, "extract")
    /\ IF ~ok
       THEN RunFail(r, "Processing error")
       ELSE /\ jobs' = update_job_status(jobs, runs[r].job_id, "processing", 70,
                                         NoError)
            /\ runs' = [runs EXCEPT ![r].pc = "validate"]
            /\ UNCHANGED tempFiles
    /\ UNCHANGED <<documents, nextDoc, uploads, extractions, cancels>>
    /\ UNCHANGED libraryVars

\* RunValidate as it would be if a valid == false result were raised as an
\* exception inside the inner try.
RunValidate_raising(r, valid) ==
    /\ RunAt(r, "validate")
    /\ IF valid
       THEN /\ jobs' = update_job_status(jobs, runs[r].job_id, "processing", 90,
                                         NoError)
            /\ runs' = [runs EXCEPT ![r].pc = "persist",
                                    ![r].validation_results = "valid"]
            /\ UNCHANGED tempFiles
       ELSE RunFail(r, "Processing error")
    /\ UNCHANGED <<documents, nextDoc, uploads, extractions, cancels>>
    /\ UNCHANGED libraryVars

\* schema_validator.validate returns its results and never raises.
RunValidate(r, valid) ==
    /\ RunAt(r, "validate")
    /\ jobs' = update_job_status(jobs, runs[r].job_id, "processing", 90, NoError)
    /\ runs' = [runs EXCEPT ![r].pc = "persist",
                            ![r].validation_results =
                                IF valid THEN "valid" ELSE "invalid"]
    /\ UNCHANGED <<documents, nextDoc, uploads, extractions, tempFiles, cancels>>
    /\ UNCHANGED libraryVars

\* db_client.create_extraction: a failed INSERT is logged and returns None.
RunPersist(r, ok) ==
    /\ RunAt(r, "persist")
    /\ IF ok /\ ExtractionKeysExist(runs[r].job_id, runs[r].document_id)
       THEN /\ BagCardinality(extractions) < MaxExtractions
            /\ extractions' = create_extraction(extractions, runs[r].job_id,
                  runs[r].document_id, runs[r].validation_results = "valid")
       ELSE UNCHANGED extractions
    /\ runs' = [runs EXCEPT ![r].pc = "mark_processed"]
    /\ UNCHANGED <<documents, nextDoc, uploads, jobs, tempFiles, cancels>>
    /\ UNCHANGED libraryVars

\* await db_client.update_document_status(document_id, "processed")
RunMarkProcessed(r) ==
    /\ RunAt(r, "mark_processed")
    /\ documents' = update_document_status(documents, runs[r].document_id,
                                           "processed")
    /\ runs' = [runs EXCEPT ![r].pc = "complete"]
    /\ UNCHANGED <<nextDoc, uploads, jobs, extractions, tempFiles, cancels>>
    /\ UNCHANGED libraryVars

\* await db_client.update_job_status(job_id, "completed", progress=100.0),
\* then the finally block.
RunComplete(r) ==
    /\ RunAt(r, "complete")
    /\ jobs' = update_job_status(jobs, runs[r].job_id, "completed", 100, NoError)
    /\ tempFiles' = RemoveTempFile(tempFiles, r)
    /\ runs' = Finished(r)
    /\ UNCHANGED <<documents, nextDoc, uploads, extractions, cancels>>
    /\ UNCHANGED libraryVars

\* ---- cancellation --------------------------------------------------------
\* if job.status not in ["pending", "processing"]: rejected
Cancellable == {"pending", "processing"}

CancelAt(c, pc) == c \in DOMAIN cancels /\ cancels[c].pc = pc

\* POST /jobs/{job_id}/cancel up to the call of cancel_job; a job that is not
\* found (404) or not cancellable (400) is rejected.
cancel_processing_job(job_id) ==
    /\ job_id \in DOMAIN jobs
    /\ IF jobs[job_id].status \in Cancellable
       THEN /\ Len(cancels) < MaxCancels
            /\ cancels' = Append(cancels, [job_id |-> job_id, pc |-> "cancel_job",
                                           seen |-> jobs[job_id].status])
       ELSE UNCHANGED cancels
    /\ UNCHANGED <<documents, nextDoc, uploads, jobs, extractions, runs,
                   tempFiles>>
    /\ UNCHANGED libraryVars

\* job_service.cancel_job: job.status = "canceled"; commit; then the POST to
\* /api/cancel, whose failure is logged and ignored.
cancel_job(c, notified) ==
    /\ CancelAt(c, "cancel_job")
    /\ jobs' = [jobs EXCEPT ![cancels[c].job_id].status = "canceled"]
    /\ cancels' = [cancels EXCEPT ![c].pc =
                      IF notified THEN "api_cancel" ELSE "returned"]
    /\ UNCHANGED <<documents, nextDoc, uploads, extractions, runs, tempFiles>>
    /\ UNCHANGED libraryVars

\* api_cancel_processing up to its status check.
api_cancel_processing(c) ==
    /\ CancelAt(c, "api_cancel")
    /\ cancels' = [cancels EXCEPT ![c].pc =
                      IF jobs[cancels[c].job_id].status \in Cancellable
                      THEN "api_cancel_update" ELSE "returned"]
    /\ UNCHANGED <<documents, nextDoc, uploads, jobs, extractions, runs,
                   tempFiles>>
    /\ UNCHANGED libraryVars

\* await db_client.update_job_status(request.job_id, "canceled")
api_cancel_update(c) ==
    /\ CancelAt(c, "api_cancel_update")
    /\ jobs' = update_job_status(jobs, cancels[c].job_id, "canceled", NoProgress,
                                 NoError)
    /\ cancels' = [cancels EXCEPT ![c].pc = "returned"]
    /\ UNCHANGED <<documents, nextDoc, uploads, extractions, runs, tempFiles>>
    /\ UNCHANGED libraryVars

RunIds == 1..MaxRuns
CancelIds == 1..MaxCancels

Next ==
    \/ \E ext \in FileExtensions : upload_document(ext)
    \/ \E d \in DocIds, n \in BOOLEAN : create_document_job(d, n)
    \/ \E d \in DocIds, n \in BOOLEAN : create_processing_job(d, n)
    \/ \E d \in DocIds : remove_document(d)
    \/ \E d \in DocIds, valid \in BOOLEAN : process_uploaded_document(d, valid)
    \/ \E j \in DOMAIN jobs :
          \E d \in {jobs[j].document_id, UnknownDocument} :
             api_process_document(j, d)
    \/ \E r \in RunIds : RunStart(r)
    \/ \E r \in RunIds : RunGetDocument(r)
    \/ \E r \in RunIds, o \in DownloadOutcomes : RunDownload(r, o)
    \/ \E r \in RunIds, ok \in BOOLEAN : RunParse(r, ok)
    \/ \E r \in RunIds, ok \in BOOLEAN : RunExtract(r, ok)
    \/ \E r \in RunIds, valid \in BOOLEAN : RunValidate(r, valid)
    \/ \E r \in RunIds, ok \in BOOLEAN : RunPersist(r, ok)
    \/ \E r \in RunIds : RunMarkProcessed(r)
    \/ \E r \in RunIds : RunComplete(r)
    \/ \E j \in JobIds : cancel_processing_job(j)
    \/ \E c \in CancelIds, n \in BOOLEAN : cancel_job(c, n)
    \/ \E c \in CancelIds : api_cancel_processing(c)
    \/ \E c \in CancelIds : api_cancel_update(c)

Spec == Init /\ [][Next]_vars

\* ---- ExcelValidator --------------------------------------------------------
SUPPORTED_DATA_TYPES ==
    {"excel_table", "excel_form", "excel_report", "excel_financial",
     "excel_inventory", "excel_timesheet"}

\* self.data_type_patterns, in the order the dict was written.
data_type_patterns ==
    << [data_type |-> "excel_table",
        headers |-> {"id", "name", "code", "category", "amount", "quantity",
                     "date", "status"},
        sheet_names |-> {"data", "table", "list", "records", "items"}],
       [data_type |-> "excel_form",
        headers |-> {"field", "value", "label", "input", "form"},
        sheet_names |-> {"form", "input", "entry", "fields"}],
       [data_type |-> "excel_financial",
        headers |-> {"account", "amount", "balance", "credit", "debit",
                     "revenue", "expense"},
        sheet_names |-> {"finance", "financial", "accounts", "ledger",
                         "balance", "p&l"}],
       [data_type |-> "excel_inventory",
        headers |-> {"sku", "inventory", "stock", "quantity", "location",
                     "warehouse"},
        sheet_names |-> {"inventory", "stock", "products", "items",
                         "warehouse"}],
       [data_type |-> "excel_timesheet",
        headers |-> {"hours", "date", "day", "time", "project", "task",
                     "employee"},
        sheet_names |-> {"timesheet", "hours", "time", "attendance",
                         "schedule"}] >>

\* pattern in name.lower(): the keywords that are substrings of each sheet name
\* and header the inputs use.
PatternsIn(name) ==
    CASE name = "items" -> {"items", "item"}
      [] name = "timesheet" -> {"timesheet", "time"}
      [] name = "id" -> {"id"}
      [] name = "balance" -> {"balance"}
      [] name = "hours" -> {"hours"}
      [] name = "sku" -> {"sku"}
      [] OTHER -> {}

\* What iterating data.get("tables", []) and calling table.get on each item
\* does: TypeError for None, AttributeError for an item that is no dict.
TablesRaise(d) ==
    LET tables == Get(d, "tables", List(<<>>))
    IN \/ tables.type # "list"
       \/ \E i \in DOMAIN tables.v : tables.v[i].type # "dict"

\* [table.get("sheet_name", "").lower() for table in tables]
SheetNamesOf(d) ==
    LET tables == Get(d, "tables", List(<<>>)).v
    IN [i \in DOMAIN tables |-> Get(tables[i].v, "sheet_name", Str("")).v]

\* headers.extend([h.lower() for h in table.get("headers", [])])
HeadersOf(d) ==
    LET tables == Get(d, "tables", List(<<>>)).v
    IN Flatten([i \in DOMAIN tables |->
                   LET hs == Get(tables[i].v, "headers", List(<<>>)).v
                   IN [k \in DOMAIN hs |-> hs[k].v]])

\* TypeScore as it would be if only the sheet names were scored.
TypeScore_sheet_names_only(patterns, sheet_names, headers) ==
    2 * Sum([i \in DOMAIN sheet_names |->
                Cardinality(PatternsIn(sheet_names[i]) \cap patterns.sheet_names)])

\* score += 2 per (sheet name, pattern) match, += 1 per (header, pattern) match
TypeScore(patterns, sheet_names, headers) ==
    2 * Sum([i \in DOMAIN sheet_names |->
                Cardinality(PatternsIn(sheet_names[i]) \cap patterns.sheet_names)])
    + Sum([i \in DOMAIN headers |->
              Cardinality(PatternsIn(headers[i]) \cap patterns.headers)])

\* ExcelValidator._detect_data_type, for data on which it does not raise.
DetectedType(d) ==
    LET scores == [i \in DOMAIN data_type_patterns |->
                      TypeScore(data_type_patterns[i], SheetNamesOf(d),
                                HeadersOf(d))]
        max_score == CHOOSE m \in {scores[i] : i \in DOMAIN scores} :
                        \A i \in DOMAIN scores : scores[i] <= m
        first == CHOOSE i \in DOMAIN scores :
                    /\ scores[i] = max_score
                    /\ \A k \in DOMAIN scores : scores[k] = max_score => i <= k
    IN IF IsList(d, "fields") THEN "excel_form"
       ELSE IF IsList(d, "sections") THEN "excel_report"
       ELSE IF max_score > 0 THEN data_type_patterns[first].data_type
       ELSE "excel_table"

\* _detect_data_type as it would be if it kept the type it reported last on the
\* validator instance and reported that again.
_detect_data_type_remembered(self, d) ==
    IF TablesRaise(d) THEN [raised |-> TRUE]
    ELSE [raised |-> FALSE,
          data_type |->
             LET mine == {i \in DOMAIN calls :
                             /\ calls[i].validator = "excel"
                             /\ calls[i].self = self
                             /\ calls[i].schema_type \in SUPPORTED_DATA_TYPES}
             IN IF mine = {} THEN DetectedType(d)
                ELSE calls[CHOOSE i \in mine : \A k \in mine : k <= i].schema_type]

\* ExcelValidator._detect_data_type: the exception or the type it returns; it
\* reads the data and self.data_type_patterns only.
_detect_data_type(self, d) ==
    IF TablesRaise(d) THEN [raised |-> TRUE]
    ELSE [raised |-> FALSE, data_type |-> DetectedType(d)]

\* The messages of the basic tier.
MissingTables == "Missing or invalid 'tables' field (must be a list)"
MissingMetadata == "Missing or invalid 'metadata' field (must be a dictionary)"
MissingFields ==
    "Missing or invalid 'fields' field for form data (must be a list)"
NoTables == "No tables found in data"

\* The checks of a tier that did not pass.
Failed(checks) == {i \in DOMAIN checks : ~checks[i].passed}

\* ExcelValidator._run_basic_validation
_run_basic_validation(d, data_type) ==
    LET has_tables == IsList(d, "tables")
        has_metadata == "metadata" \in DOMAIN d /\ d["metadata"].type = "dict"
        has_some_tables == has_tables /\ Len(d["tables"].v) > 0
        has_fields == IsList(d, "fields")
        checks ==
            << [name |-> "data_structure", passed |-> TRUE],
               [name |-> "has_tables", passed |-> has_tables],
               [name |-> "has_metadata", passed |-> has_metadata] >>
            \o (IF data_type = "excel_table" /\ has_tables
                THEN << [name |-> "has_some_tables", passed |-> has_some_tables] >>
                ELSE <<>>)
            \o (IF data_type = "excel_form"
                THEN << [name |-> "has_fields", passed |-> has_fields] >>
                ELSE <<>>)
    IN [valid |-> Failed(checks) = {},
        checks |-> checks,
        errors |-> (IF has_tables THEN <<>> ELSE <<MissingTables>>)
                   \o (IF has_metadata THEN <<>> ELSE <<MissingMetadata>>)
                   \o (IF data_type = "excel_form" /\ ~has_fields
                       THEN <<MissingFields>> ELSE <<>>),
        warnings |-> IF data_type = "excel_table" /\ has_tables
                        /\ ~has_some_tables
                     THEN <<NoTables>> ELSE <<>>]

\* The items schema of "tables": an object with sheet_name (string), headers
\* (array of strings) and data (array of objects), all three required.
TableItemValid(t) ==
    /\ t.type = "dict"
    /\ {"sheet_name", "headers", "data"} \subseteq DOMAIN t.v
    /\ t.v["sheet_name"].type = "str"
    /\ t.v["headers"].type = "list"
    /\ \A k \in DOMAIN t.v["headers"].v : t.v["headers"].v[k].type = "str"
    /\ t.v["data"].type = "list"
    /\ \A k \in DOMAIN t.v["data"].v : t.v["data"].v[k].type = "dict"

\* An array property whose items satisfy ItemValid, when the key is present.
ArrayValid(d, key, ItemValid(_)) ==
    key \in DOMAIN d =>
       /\ d[key].type = "list"
       /\ \A i \in DOMAIN d[key].v : ItemValid(d[key].v[i])

\* The items schema of "fields": an object with name and value.
FieldItemValid(f) ==
    /\ f.type = "dict"
    /\ {"name", "value"} \subseteq DOMAIN f.v
    /\ f.v["name"].type = "str"

\* The items schema of "sections": an object with a title.
SectionItemValid(s) ==
    /\ s.type = "dict"
    /\ "title" \in DOMAIN s.v
    /\ s.v["title"].type = "str"

\* "metadata": an object whose document_type is a string.
MetadataValid(d) ==
    "metadata" \in DOMAIN d =>
       /\ d["metadata"].type = "dict"
       /\ "document_type" \in DOMAIN d["metadata"].v =>
             d["metadata"].v["document_type"].type = "str"

\* get_default_schema: the required top-level fields of each data type.
RequiredFields(data_type) ==
    CASE data_type = "excel_form" -> {"fields", "metadata"}
      [] data_type = "excel_report" -> {"tables", "metadata", "sections"}
      [] OTHER -> {"tables", "metadata"}

\* jsonschema.validate(instance=data, schema=get_default_schema(data_type))
SchemaValid(d, data_type) ==
    /\ RequiredFields(data_type) \subseteq DOMAIN d
    /\ ArrayValid(d, "tables", TableItemValid)
    /\ MetadataValid(d)
    /\ data_type = "excel_form" => ArrayValid(d, "fields", FieldItemValid)
    /\ data_type = "excel_report" => ArrayValid(d, "sections", SectionItemValid)

\* ExcelValidator._run_schema_validation
_run_schema_validation(d, data_type) ==
    LET ok == SchemaValid(d, data_type)
    IN [valid |-> ok,
        checks |-> << [name |-> "schema_validation", passed |-> ok] >>,
        errors |-> IF ok THEN <<>> ELSE << "Schema validation error" >>,
        warnings |-> <<>>]

\* A custom check: only a failed check of severity error makes the tier invalid.
Check(name, passed, severity) ==
    [name |-> name, passed |-> passed, severity |-> severity]

\* CustomResult as it would be if every failed check made the tier invalid.
CustomResult_all_passed(checks) ==
    [raised |-> FALSE,
     valid |-> \A i \in DOMAIN checks : checks[i].passed,
     checks |-> checks]

\* The result of a custom rule that returned its checks.
CustomResult(checks) ==
    [raised |-> FALSE,
     valid |-> \A i \in DOMAIN checks :
                  checks[i].passed \/ checks[i].severity # "error",
     checks |-> checks]

\* The tables of the data as a custom rule reads them.
TablesOf(d) == Get(d, "tables", List(<<>>))

\* [h for h in headers if any(term in h.lower() for term in terms)]
HeadersWith(t, terms) ==
    LET hs == Get(t.v, "headers", List(<<>>)).v
    IN {hs[k].v : k \in {x \in DOMAIN hs : PatternsIn(hs[x].v) \cap terms # {}}}

\* float(str(value).replace(',', '')) succeeds
IsNumeric(value) ==
    \/ value.type = "number"
    \/ value.type = "str" /\ value.v \in {"1", "2", "0.5"}

\* re.match of one of the three date patterns on str(value)
IsDate(value) ==
    value.type = "str" /\ value.v \in {"2025-03-26", "03/26/2025", "26-03-2025"}

\* The per-column checks of the financial, inventory and timesheet rules: one
\* warning-severity check for each flagged header that is a key of the first
\* row.  A numeric test also bounds the value (>= 0, or 0..24); the numbers
\* the inputs use are within both.
ColumnChecks(t, terms, name) ==
    LET rows == Get(t.v, "data", List(<<>>)).v
        flagged == HeadersWith(t, terms)
        present == IF rows = <<>> THEN {}
                   ELSE {h \in flagged : h \in DOMAIN rows[1].v}
        passed(h) == \A k \in DOMAIN rows :
                        /\ h \in DOMAIN rows[k].v
                        /\ IF name = "column_valid_date"
                           THEN IsDate(rows[k].v[h])
                           ELSE IsNumeric(rows[k].v[h])
        RECURSIVE Each(_)
        Each(hs) == IF hs = {} THEN <<>>
                    ELSE LET h == CHOOSE x \in hs : TRUE
                         IN << Check(name, passed(h), "warning") >>
                            \o Each(hs \ {h})
    IN Each(present)

\* ExcelValidator._validate_excel_table
_validate_excel_table(d) ==
    IF TablesRaise(d) THEN [raised |-> TRUE]
    ELSE LET tables == TablesOf(d).v
             of(t) ==
                 LET headers == Get(t.v, "headers", List(<<>>))
                     rows == Get(t.v, "data", List(<<>>))
                 IN << Check("table_headers", Truthy(headers), "error"),
                       Check("table_data", Truthy(rows), "warning") >>
                    \o (IF Truthy(headers) /\ Truthy(rows)
                        THEN << Check("table_consistency",
                                      \A k \in DOMAIN rows.v :
                                         DOMAIN rows.v[k].v = DOMAIN rows.v[1].v,
                                      "warning") >>
                        ELSE <<>>)
             has_data == \E i \in DOMAIN tables :
                            Truthy(Get(tables[i].v, "data", List(<<>>)))
         IN CustomResult(Flatten([i \in DOMAIN tables |-> of(tables[i])])
                         \o << Check("has_table_data", has_data, "error") >>)

\* ExcelValidator._validate_excel_form ("fields", when present, is a list or
\* None; "name" in field raises for an item that is None)
_validate_excel_form(d) ==
    LET fields == Get(d, "fields", List(<<>>))
        of(f) == << Check("field_name",
                          "name" \in DOMAIN f.v /\ Truthy(f.v["name"]), "error"),
                    Check("field_value", "value" \in DOMAIN f.v, "error") >>
    IN IF Truthy(fields) /\ \E i \in DOMAIN fields.v : fields.v[i].type # "dict"
       THEN [raised |-> TRUE]
       ELSE CustomResult(
               << Check("has_fields", Truthy(fields), "error") >>
               \o (IF Truthy(fields)
                   THEN Flatten([i \in DOMAIN fields.v |-> of(fields.v[i])])
                   ELSE <<>>))

\* ExcelValidator._validate_excel_report ("sections", when present, is a list
\* or None)
_validate_excel_report(d) ==
    LET sections == Get(d, "sections", List(<<>>))
        of(s) == << Check("section_title",
                          "title" \in DOMAIN s.v /\ Truthy(s.v["title"]), "error"),
                    Check("section_content",
                          \/ "content" \in DOMAIN s.v /\ Truthy(s.v["content"])
                          \/ "tables" \in DOMAIN s.v /\ Truthy(s.v["tables"]),
                          "warning") >>
    IN IF Truthy(sections)
          /\ \E i \in DOMAIN sections.v : sections.v[i].type # "dict"
       THEN [raised |-> TRUE]
       ELSE CustomResult(
               << Check("has_sections", Truthy(sections), "error") >>
               \o (IF Truthy(sections)
                   THEN Flatten([i \in DOMAIN sections.v |-> of(sections.v[i])])
                   ELSE <<>>))

\* The financial, inventory and timesheet rules share their shape: has_tables
\* (error), then for each table a check that a column of the type was detected
\* and the per-column checks, all of severity warning.
TableRule(d, columns, column_terms, checked) ==
    LET tables == TablesOf(d)
        of(t) == << Check(columns, HeadersWith(t, column_terms) # {}, "warning") >>
                 \o Flatten([i \in DOMAIN checked |->
                                ColumnChecks(t, checked[i].terms, checked[i].name)])
    IN IF Truthy(tables) /\ TablesRaise(d)
       THEN [raised |-> TRUE]
       ELSE CustomResult(
               << Check("has_tables", Truthy(tables), "error") >>
               \o (IF Truthy(tables)
                   THEN Flatten([i \in DOMAIN tables.v |-> of(tables.v[i])])
                   ELSE <<>>))

\* ExcelValidator._validate_excel_financial
_validate_excel_financial(d) ==
    LET terms == {"amount", "balance", "total", "sum", "credit", "debit",
                  "value", "price"}
    IN TableRule(d, "financial_columns", terms,
                 << [name |-> "column_numeric", terms |-> terms] >>)

\* ExcelValidator._validate_excel_inventory
_validate_excel_inventory(d) ==
    TableRule(d, "inventory_columns",
              {"sku", "product", "item", "quantity", "stock", "inventory",
               "warehouse", "location"},
              << [name |-> "column_valid_quantity",
                  terms |-> {"quantity", "stock", "count", "units", "qty"}] >>)

\* ExcelValidator._validate_excel_timesheet
_validate_excel_timesheet(d) ==
    TableRule(d, "timesheet_columns",
              {"date", "day", "time", "hours", "project", "task", "employee",
               "activity"},
              << [name |-> "column_valid_date", terms |-> {"date", "day", "when"}],
                 [name |-> "column_valid_hours",
                  terms |-> {"hours", "time", "duration"}] >>)

\* self.custom_rules.get(data_type)
custom_rules(d, data_type) ==
    CASE data_type = "excel_table" -> _validate_excel_table(d)
      [] data_type = "excel_form" -> _validate_excel_form(d)
      [] data_type = "excel_report" -> _validate_excel_report(d)
      [] data_type = "excel_financial" -> _validate_excel_financial(d)
      [] data_type = "excel_inventory" -> _validate_excel_inventory(d)
      [] data_type = "excel_timesheet" -> _validate_excel_timesheet(d)

\* The messages of the failed checks of the given severity (the message of a
\* custom check is its name here).
MessagesOf(checks, severity) ==
    LET RECURSIVE Each(_)
        Each(cs) == IF cs = <<>> THEN <<>>
                    ELSE (IF ~Head(cs).passed /\ Head(cs).severity = severity
                          THEN << Head(cs).name >> ELSE <<>>)
                         \o Each(Tail(cs))
    IN Each(checks)

\* ExcelValidator._run_custom_validation
_run_custom_validation(d, data_type) ==
    LET custom == custom_rules(d, data_type)
    IN IF custom.raised THEN custom
       ELSE [raised |-> FALSE, valid |-> custom.valid, checks |-> custom.checks,
             errors |-> MessagesOf(custom.checks, "error"),
             warnings |-> MessagesOf(custom.checks, "warning")]

\* class ValidationLevel
ValidationLevel == {"basic", "standard", "strict", "custom"}

\* The tiers as validation_results is initialised.
NotRun == [valid |-> FALSE, checks |-> <<>>, errors |-> <<>>, warnings |-> <<>>]

\* The except branch of validate: the exception becomes the result.
ErrorResults(validation_level) ==
    [valid |-> FALSE, level |-> validation_level,
     errors |-> << "Validation error" >>, warnings |-> <<>>,
     details |-> [error |-> "Validation error"]]

\* A validate that goes on to the next tiers whatever the basic tier found.
basic_failed_return_never(basic_valid, level) == FALSE

\* A validate that lets level custom go on after a failed basic tier, as
\* level strict does.
basic_failed_return_standard(basic_valid, level) ==
    ~basic_valid /\ level \notin {"strict", "custom"}

\* if not basic_valid and level != ValidationLevel.STRICT: return False, ...
basic_failed_return(basic_valid, level) ==
    ~basic_valid /\ level # "strict"

\* ExcelValidator.validate from "Initialize validation results" on: the tiers
\* the level runs and the overall result.
RunTiers(d, level, data_type, validation_level) ==
    LET basic == _run_basic_validation(d, data_type)
        stop == basic_failed_return(basic.valid, level)
        with_schema == ~stop /\ level \in {"standard", "strict", "custom"}
        with_custom == ~stop /\ level \in {"strict", "custom"}
        schema == IF with_schema THEN _run_schema_validation(d, data_type)
                  ELSE NotRun
        custom == IF with_custom THEN _run_custom_validation(d, data_type)
                  ELSE [raised |-> FALSE] @@ NotRun
    IN IF custom.raised
       THEN ErrorResults(validation_level)
       ELSE [valid |-> /\ basic.valid
                       /\ with_schema => schema.valid
                       /\ with_custom => custom.valid,
             level |-> level,
             data_type |-> data_type,
             errors |-> basic.errors \o schema.errors \o custom.errors,
             warnings |-> basic.warnings \o schema.warnings \o custom.warnings,
             details |->
                [basic |-> [valid |-> basic.valid, checks |-> basic.checks],
                 schema |-> [valid |-> schema.valid, checks |-> schema.checks],
                 custom |-> [valid |-> custom.valid, checks |-> custom.checks]]]

\* ExcelValidator.validate: the data as the call leaves it (the detected type
\* is written into data["metadata"]) and the results it returns.
validate(self, d, validation_level) ==
    LET level == IF validation_level \in ValidationLevel THEN validation_level
                 ELSE "standard"
        metadata == Get(d, "metadata", EmptyDict)
        failed == [data |-> d, results |-> ErrorResults(validation_level)]
    IN IF metadata.type # "dict" THEN failed
       ELSE LET given == Get(metadata.v, "document_type", Null)
                supported == Truthy(given) /\ given.v \in SUPPORTED_DATA_TYPES
                detected == _detect_data_type(self, d)
            IN IF supported
               THEN [data |-> d,
                     results |-> RunTiers(d, level, given.v, validation_level)]
               ELSE IF detected.raised THEN failed
               ELSE LET typed ==
                           ("metadata" :>
                               Dict(("document_type" :> Str(detected.data_type))
                                    @@ metadata.v)) @@ d
                    IN [data |-> typed,
                        results |-> RunTiers(typed, level, detected.data_type,
                                             validation_level)]

\* ---- callers of ExcelValidator ---------------------------------------------
\* The sheet names and headers of the tables the callers hand in.
SheetNames == {"sheet1", "items", "timesheet"}
HeaderNames == {"id", "balance", "hours", "sku"}

\* One row whose keys are the given headers, with a number in every cell.
RowOf(headers) == Dict([h \in headers |-> Str("1")])

\* A table dict; rows is the number of its data rows.
TableOf(sheet_name, headers, rows) ==
    Dict([sheet_name |-> Str(sheet_name),
          headers |-> List(headers),
          data |-> List([k \in 1..rows |->
                           RowOf({headers[i].v : i \in DOMAIN headers})])])

TableInputs ==
    {TableOf(s, h, n) :
        s \in SheetNames,
        h \in {<<>>} \cup {<< Str(x) >> : x \in HeaderNames},
        n \in 0..1}

\* The values of data["tables"]: None, lists of table dicts (one of them without
\* any key), a list of two tables, and a list whose item is a string.
TablesInputs ==
    {Null, List(<<>>), List(<< Str("x") >>), List(<< EmptyDict >>),
     List(<< TableOf("sheet1", << Str("id") >>, 1),
             TableOf("items", << Str("sku") >>, 0) >>)}
    \cup {List(<< t >>) :
             t \in {x \in TableInputs :
                       \/ x.v["sheet_name"].v = "sheet1"
                       \/ x.v["headers"].v \in {<<>>, << Str("hours") >>}}}

MetadataInputs ==
    {Null, EmptyDict}
    \cup {Dict([document_type |-> Str(t)]) :
             t \in {"excel_table", "excel_form", "excel_financial", "invoice"}}

FieldsInputs ==
    {List(<<>>), List(<< Dict([name |-> Str("f"), value |-> Str("1")]) >>)}

SectionsInputs == {List(<< Dict([title |-> Str("t")]) >>)}

\* A dict with or without the key.
Optional(key, values) == {<<>>} \cup {(key :> x) : x \in values}

\* The levels callers ask for; one of them is no ValidationLevel.
LevelInputs == ValidationLevel \cup {"thorough"}

Instances == 1..MaxInstances

\* The type a results dict reports, if it reports one.
ReportedType(results) ==
    IF "data_type" \in DOMAIN results THEN results.data_type ELSE "none"

\* is_valid, results = await validator.validate(data, None, validation_level)
excel_validate(self, validation_level) ==
    /\ data.type = "dict"
    /\ Len(calls) < MaxCalls
    /\ \E returned \in {validate(self, data.v, validation_level)} :
          /\ data' = Dict(returned.data)
          /\ validation_results' = returned.results
          /\ calls' = Append(calls,
                 [validator |-> "excel", self |-> self, input |-> data.v,
                  output |-> returned.data,
                  schema_type |-> ReportedType(returned.results)])
    /\ UNCHANGED <<extracted_data, validation_result, registry>>
    /\ UNCHANGED vars

InitExcel ==
    /\ ServicesIdle
    /\ \E t \in Optional("tables", TablesInputs),
          m \in Optional("metadata", MetadataInputs),
          f \in Optional("fields", FieldsInputs),
          s \in Optional("sections", SectionsInputs) :
          data = Dict(t @@ m @@ f @@ s)
    /\ validation_results = Null
    /\ extracted_data = Null
    /\ validation_result = Null
    /\ calls = <<>>
    /\ registry = Null

NextExcel ==
    \E self \in Instances, level \in LevelInputs : excel_validate(self, level)

SpecExcel == InitExcel /\ [][NextExcel]_allVars

\* ---- SchemaValidator -------------------------------------------------------
\* A str whose characters the code inspects is the sequence of its characters;
\* a number is m * 10^e with no trailing zero in m when e < 0, so that equal
\* numbers are equal records.
Chars(cs) == [type |-> "str", v |-> cs]
Number(m, e) == [type |-> "number", m |-> m, e |-> e]

DigitChars == <<"0", "1", "2", "3", "4", "5", "6", "7", "8", "9">>
IsDigit(c) == \E i \in DOMAIN DigitChars : DigitChars[i] = c
DigitValue(c) == (CHOOSE i \in DOMAIN DigitChars : DigitChars[i] = c) - 1

\* \d+ matches the whole of cs
IsDigits(cs) == cs # <<>> /\ \A i \in DOMAIN cs : IsDigit(cs[i])

\* int(cs) for a sequence of digits
RECURSIVE ToInt(_)
ToInt(cs) ==
    IF cs = <<>> THEN 0
    ELSE 10 * ToInt(SubSeq(cs, 1, Len(cs) - 1)) + DigitValue(cs[Len(cs)])

\* str(n) for n >= 0
RECURSIVE IntChars(_)
IntChars(n) ==
    IF n < 10 THEN << DigitChars[n + 1] >>
    ELSE IntChars(n \div 10) \o << DigitChars[(n % 10) + 1] >>

\* str(value) for the values the inputs hold under "total_amount"
PyStr(value) ==
    CASE value.type = "str" -> value.v
      [] value.type = "null" -> <<"N", "o", "n", "e">>
      [] value.type = "list" ->
            <<"[">> \o Flatten([i \in DOMAIN value.v |->
                          (IF i = 1 THEN <<>> ELSE <<",", " ">>)
                          \o IntChars(value.v[i].m)])
            \o <<"]">>
      [] OTHER -> <<"{", "}">>

\* re.sub(r'[^\d.\-]', '', cs)
KeptInAmount(c) == IsDigit(c) \/ c \in {".", "-"}
CleanAmount(cs) == SelectSeq(cs, KeptInAmount)

\* m * 10^e without trailing zeros after the decimal point
RECURSIVE Canonical(_, _)
Canonical(m, e) ==
    IF e < 0 /\ m % 10 = 0 THEN Canonical(m \div 10, e + 1) ELSE Number(m, e)

\* float(cs) for cs made of digits, "." and "-": an optional leading "-", then
\* digits with at most one "." among them; anything else is a ValueError.
ParseFloat(cs) ==
    LET negative == cs # <<>> /\ cs[1] = "-"
        body == IF negative THEN Tail(cs) ELSE cs
        points == {i \in DOMAIN body : body[i] = "."}
        digits == SelectSeq(body, IsDigit)
        ok == /\ digits # <<>>
              /\ Cardinality(points) <= 1
              /\ \A i \in DOMAIN body : IsDigit(body[i]) \/ body[i] = "."
        decimals == IF points = {} THEN 0
                    ELSE Len(body) - (CHOOSE i \in points : TRUE)
        m == ToInt(digits)
    IN IF ok
       THEN [ok |-> TRUE,
             value |-> Canonical(IF negative THEN 0 - m ELSE m, 0 - decimals)]
       ELSE [ok |-> FALSE]

\* The parts of cs between the occurrences of sep.
RECURSIVE Split(_, _)
Split(cs, sep) ==
    IF \A i \in DOMAIN cs : cs[i] # sep THEN << cs >>
    ELSE LET at == CHOOSE i \in DOMAIN cs :
                       cs[i] = sep /\ \A j \in 1..(i - 1) : cs[j] # sep
         IN << SubSeq(cs, 1, at - 1) >>
            \o Split(SubSeq(cs, at + 1, Len(cs)), sep)

\* calendar.monthrange(year, month)[1]
DaysInMonth(year, month) ==
    IF month = 2
    THEN (IF year % 4 = 0 /\ (year % 100 # 0 \/ year % 400 = 0) THEN 29 ELSE 28)
    ELSE IF month \in {4, 6, 9, 11} THEN 30 ELSE 31

\* datetime.strptime(cs, fmt) for the formats "%m/%d/%Y", "%d.%m.%Y" and
\* "%Y-%m-%d", given as the separator and the positions of month, day and year.
\* %m and %d take one or two digits, %Y takes four; a month, a day or a year
\* out of range is a ValueError as a mismatch is.
strptime(cs, sep, month_at, day_at, year_at) ==
    LET parts == Split(cs, sep)
        shaped == /\ Len(parts) = 3
                  /\ \A i \in 1..3 : IsDigits(parts[i])
                  /\ Len(parts[month_at]) \in {1, 2}
                  /\ Len(parts[day_at]) \in {1, 2}
                  /\ Len(parts[year_at]) = 4
        year == ToInt(parts[year_at])
        month == ToInt(parts[month_at])
        day == ToInt(parts[day_at])
    IN IF /\ shaped
          /\ year >= 1
          /\ month \in 1..12
          /\ day \in 1..DaysInMonth(year, month)
       THEN [ok |-> TRUE, year |-> year, month |-> month, day |-> day]
       ELSE [ok |-> FALSE]

\* "%02d" % n
Pad2(n) == IF n < 10 THEN <<"0">> \o IntChars(n) ELSE IntChars(n)

\* date_obj.strftime("%Y-%m-%d"); the years of the inputs have four digits
strftime(date_obj) ==
    IntChars(date_obj.year) \o <<"-">> \o Pad2(date_obj.month)
    \o <<"-">> \o Pad2(date_obj.day)

\* re.match of \d{a}<sep>\d{b}<sep>\d{c} on the whole of cs
MatchesDigits(cs, sep, a, b, c) ==
    LET parts == Split(cs, sep)
    IN /\ Len(parts) = 3
       /\ \A i \in 1..3 : IsDigits(parts[i])
       /\ Len(parts[1]) = a /\ Len(parts[2]) = b /\ Len(parts[3]) = c

\* re.match(r'^\d{4}-\d{2}-\d{2}$', cs)
IsIsoDate(cs) == MatchesDigits(cs, "-", 4, 2, 2)

\* check_date_format(value): TypeError from re.match for a value that is no
\* str; otherwise one of the three patterns matches or one of the three formats
\* parses.
check_date_format(value) ==
    IF value.type # "str" THEN [raised |-> TRUE]
    ELSE [raised |-> FALSE,
          result |->
             \/ IsIsoDate(value.v)
             \/ MatchesDigits(value.v, "/", 2, 2, 4)
             \/ MatchesDigits(value.v, ".", 2, 2, 4)
             \/ strptime(value.v, "-", 2, 3, 1).ok
             \/ strptime(value.v, "/", 1, 2, 3).ok
             \/ strptime(value.v, ".", 2, 1, 3).ok]

\* self.schemas: the "required" list and the "type" and "format" of the
\* properties the inputs use.
schemas ==
    [invoice |->
        [required |-> <<"invoice_number", "date", "total_amount">>,
         properties |-> [invoice_number |-> [type |-> "str"],
                         date |-> [type |-> "str", format |-> "date"],
                         total_amount |-> [type |-> "number"]]],
     report |->
        [required |-> <<"title", "date">>,
         properties |-> [title |-> [type |-> "str"],
                         date |-> [type |-> "str", format |-> "date"],
                         sections |-> [type |-> "list"],
                         data |-> [type |-> "dict"]]],
     form |->
        [required |-> <<"form_type", "fields">>,
         properties |-> [form_type |-> [type |-> "str"],
                         fields |-> [type |-> "dict"]]]]

\* The properties of the schema the data has, in the schema's order.
PropertiesOf(schema, d) ==
    SelectSeq(<<"invoice_number", "title", "form_type", "date", "total_amount",
                "sections", "data", "fields">>,
              LAMBDA k : k \in DOMAIN schema.properties /\ k \in DOMAIN d)

\* list(validator.iter_errors(extracted_data)): one error for each required
\* property that is missing, for each property of the wrong type and for each
\* date the format checker rejects; the format checker's TypeError is raised
\* out of it.
iter_errors(schema, d) ==
    LET present == PropertiesOf(schema, d)
        dated == {i \in DOMAIN present :
                     "format" \in DOMAIN schema.properties[present[i]]}
        missing == SelectSeq(schema.required, LAMBDA k : k \notin DOMAIN d)
        mistyped == SelectSeq(present,
                       LAMBDA k : d[k].type # schema.properties[k].type)
        misformatted ==
            SelectSeq(present,
               LAMBDA k : /\ "format" \in DOMAIN schema.properties[k]
                          /\ ~check_date_format(d[k]).raised
                          /\ ~check_date_format(d[k]).result)
        Message(kind, keys) == [i \in DOMAIN keys |-> <<kind, keys[i]>>]
    IN IF \E i \in dated : check_date_format(d[present[i]]).raised
       THEN [raised |-> TRUE]
       ELSE [raised |-> FALSE,
             errors |-> Message("required", missing)
                        \o Message("type", mistyped)
                        \o Message("format", misformatted)]

\* SchemaValidator._determine_schema_type
_determine_schema_type(self, d) ==
    IF "invoice_number" \in DOMAIN d \/ "total_amount" \in DOMAIN d
    THEN "invoice"
    ELSE IF "title" \in DOMAIN d /\ ("sections" \in DOMAIN d \/ "data" \in DOMAIN d)
    THEN "report"
    ELSE "form"

\* A normalisation that falls back to 0.0 when the amount cannot be converted.
normalized_amount_defaulting(value) ==
    IF value.type = "number" THEN value
    ELSE LET amount == ParseFloat(CleanAmount(PyStr(value)))
         IN IF amount.ok THEN amount.value ELSE Number(0, 0)

\* _normalize_data, "Ensure total_amount is a number": a value that is no
\* number becomes float() of its cleaned text, and stays as it is when that
\* is a ValueError.
normalized_amount(value) ==
    IF value.type = "number" THEN value
    ELSE LET amount == ParseFloat(CleanAmount(PyStr(value)))
         IN IF amount.ok THEN amount.value ELSE value

\* _normalize_data, "Normalize date format": a date that is no ISO date becomes
\* the ISO form of what the first of "%m/%d/%Y" and "%d.%m.%Y" parses; it
\* stays as it is when neither parses it and when it is no str (str() of such
\* a value is no ISO date and strptime's TypeError is caught).
normalized_date(value) ==
    IF value.type # "str" \/ IsIsoDate(value.v) THEN value
    ELSE LET us == strptime(value.v, "/", 1, 2, 3)
             european == strptime(value.v, ".", 2, 1, 3)
         IN IF us.ok THEN Chars(strftime(us))
            ELSE IF european.ok THEN Chars(strftime(european))
            ELSE value

\* SchemaValidator._normalize_data: the copy of the data it returns.
_normalize_data(d, schema_type) ==
    IF schema_type # "invoice" THEN d
    ELSE [k \in DOMAIN d |->
             CASE k = "total_amount" -> normalized_amount(d[k])
               [] k = "date" -> normalized_date(d[k])
               [] OTHER -> d[k]]

\* The result of the except branch of SchemaValidator.validate.
SchemaErrorResult ==
    [valid |-> FALSE, schema_type |-> "error",
     errors |-> << <<"Validation error">> >>]

\* An exception as the caller of a function sees it.
Raised == [raised |-> TRUE]

\* The try block of SchemaValidator.validate.  Every type that
\* _determine_schema_type returns has a schema, so "No matching schema found"
\* is never returned.
validate_try(self, d) ==
    LET schema_type == _determine_schema_type(self, d)
        found == iter_errors(schemas[schema_type], d)
    IN IF found.raised THEN Raised
       ELSE [valid |-> found.errors = <<>>,
             schema_type |-> schema_type,
             errors |-> found.errors,
             normalized_data |-> Dict(_normalize_data(d, schema_type))]

\* A validate whose except clause is missing: the exception reaches the caller.
validate_except_missing(outcome) == outcome

\* except Exception as e: return {"valid": False, "schema_type": "error", ...}
validate_except(outcome) ==
    IF "raised" \in DOMAIN outcome THEN SchemaErrorResult ELSE outcome

\* SchemaValidator.validate
SchemaValidator_validate(self, d) == validate_except(validate_try(self, d))

\* ---- callers of SchemaValidator --------------------------------------------
\* The characters of the amounts the callers hand in.
AmountAlphabet == {"1", "0", ".", "-", "$", ","}

\* The texts of at most n characters of the alphabet.
RECURSIVE Texts(_, _)
Texts(alphabet, n) ==
    IF n = 0 THEN {<<>>}
    ELSE LET shorter == Texts(alphabet, n - 1)
         IN shorter \cup {Append(t, c) : t \in shorter, c \in alphabet}

\* The values of total_amount: texts, numbers (5 and 12.5), None and [1, 2].
AmountInputs ==
    {Chars(t) : t \in Texts(AmountAlphabet, MaxAmountLen)}
    \cup {Number(5, 0), Number(125, -1), Null,
          List(<< Number(1, 0), Number(2, 0) >>)}

\* The values of date: three parts joined by "/", "." or "-" (months, days and
\* years in and out of range, 29 February in a leap year and in another year),
\* texts that are no date, a number and None.
DateInputs ==
    {Chars(a \o <<sep>> \o b \o <<sep>> \o c) :
        a \in {<<"0", "3">>, <<"3">>, <<"2", "9">>, <<"0", "0">>},
        b \in {<<"0", "2">>, <<"2">>, <<"2", "6">>, <<"1", "3">>},
        c \in {<<"2", "0", "2", "4">>, <<"2", "0", "2", "5">>, <<"2", "5">>},
        sep \in {"/", ".", "-"}}
    \cup {Chars(<<"2", "0", "2", "5", "-", "0", "3", "-", "2", "6">>),
          Chars(<<"2", "0", "2", "5", "-", "1", "3", "-", "4", "5">>),
          Chars(<<"2", "0", "2", "5", "/", "0", "3", "/", "2", "6">>),
          Chars(<<"t", "o", "d", "a", "y">>), Chars(<<>>),
          Number(20250326, 0), Null}

\* The keys of the extracted data and the value each has when it is well typed
\* and when it is not.
SchemaKeys ==
    {"invoice_number", "total_amount", "date", "title", "sections", "data",
     "form_type", "fields", "invalid_field"}

Typed(key) ==
    CASE key = "total_amount" -> Number(5, 0)
      [] key = "date" -> Chars(<<"0", "3", "/", "2", "6", "/", "2", "0", "2", "5">>)
      [] key = "sections" -> List(<<>>)
      [] key \in {"data", "fields"} -> EmptyDict
      [] OTHER -> Chars(<<"t", "e", "s", "t">>)

Mistyped(key) ==
    CASE key = "total_amount" -> Chars(<<"$", "1", ",", "5">>)
      [] key = "date" -> Number(20250326, 0)
      [] key = "sections" -> EmptyDict
      [] key \in {"data", "fields"} -> List(<<>>)
      [] OTHER -> Null

\* schema_validate as it would be if _normalize_data worked on the data it was
\* given and not on a copy of it.
schema_validate_in_place(self) ==
    /\ extracted_data.type = "dict"
    /\ Len(calls) < MaxCalls
    /\ \E returned \in {SchemaValidator_validate(self, extracted_data.v)} :
          /\ validation_result' = returned
          /\ extracted_data' = IF "normalized_data" \in DOMAIN returned
                               THEN returned.normalized_data
                               ELSE extracted_data
          /\ calls' = Append(calls,
                 [validator |-> "schema", self |-> self,
                  input |-> extracted_data.v,
                  schema_type |-> IF "schema_type" \in DOMAIN returned
                                  THEN returned.schema_type ELSE "none"])
    /\ UNCHANGED <<data, validation_results, registry>>
    /\ UNCHANGED vars

\* validation_result = await schema_validator.validate(extracted_data)
schema_validate(self) ==
    /\ extracted_data.type = "dict"
    /\ Len(calls) < MaxCalls
    /\ \E returned \in {SchemaValidator_validate(self, extracted_data.v)} :
          /\ validation_result' = returned
          /\ calls' = Append(calls,
                 [validator |-> "schema", self |-> self,
                  input |-> extracted_data.v,
                  schema_type |-> IF "schema_type" \in DOMAIN returned
                                  THEN returned.schema_type ELSE "none"])
    /\ UNCHANGED <<data, validation_results, extracted_data, registry>>
    /\ UNCHANGED vars

\* normalized = self._normalize_data(extracted_data, schema_type), the caller
\* going on with the normalized data
normalize(schema_type) ==
    /\ extracted_data.type = "dict"
    /\ Len(calls) < MaxCalls
    /\ \E normalized \in {_normalize_data(extracted_data.v, schema_type)} :
          /\ extracted_data' = Dict(normalized)
          /\ calls' = Append(calls,
                 [validator |-> "normalize", schema_type |-> schema_type,
                  input |-> extracted_data.v, output |-> normalized])
    /\ UNCHANGED <<data, validation_results, validation_result, registry>>
    /\ UNCHANGED vars

InitSchema ==
    /\ ServicesIdle
    /\ data = Null
    /\ validation_results = Null
    /\ \/ \E amount \in AmountInputs :
             extracted_data =
                Dict([invoice_number |-> Typed("invoice_number"),
                      date |-> Typed("date"), total_amount |-> amount])
       \/ \E date \in DateInputs, owner \in {"invoice_number", "title"} :
             extracted_data =
                Dict((owner :> Typed(owner)) @@ [date |-> date, data |-> EmptyDict])
       \/ \E keys \in SUBSET SchemaKeys :
             \/ extracted_data = Dict([k \in keys |-> Typed(k)])
             \/ extracted_data = Dict([k \in keys |-> Mistyped(k)])
    /\ validation_result = Null
    /\ calls = <<>>
    /\ registry = Null

NextSchema ==
    \/ \E self \in Instances : schema_validate(self)
    \/ \E schema_type \in DOMAIN schemas : normalize(schema_type)

SpecSchema == InitSchema /\ [][NextSchema]_allVars

\* ---- callers validating one extraction after another ------------------------
\* The data of the extractions handed to ExcelValidator: data of each detected
\* type, data with a document_type that is not supported, data without tables
\* and data with tables None.
ExcelExtractions ==
    {<<>>,
     [tables |-> Null],
     [tables |-> List(<< TableOf("items", << Str("sku") >>, 1) >>)],
     [tables |-> List(<< TableOf("sheet1", << Str("balance") >>, 1) >>)],
     [tables |-> List(<< TableOf("timesheet", << Str("hours") >>, 1) >>),
      metadata |-> Dict([document_type |-> Str("invoice")])],
     [tables |-> List(<< TableOf("sheet1", << Str("id") >>, 1) >>),
      fields |-> List(<<>>)]}

\* The data of the extractions handed to SchemaValidator.
SchemaExtractions ==
    {[k \in keys |-> Typed(k)] :
        keys \in {{"invalid_field"}, {"invoice_number", "date"},
                  {"title", "data"}, {"form_type", "fields"}}}

\* extracted_data, confidence = await extractor.extract(parsed_data, options)
extractor_extract(d) ==
    /\ Len(calls) < MaxCalls
    /\ data' = Dict(d)
    /\ UNCHANGED <<validation_results, extracted_data, validation_result,
                   calls, registry>>
    /\ UNCHANGED vars

\* extracted_data = await extractor.extract(parsed_data), in the processor
processor_extract(d) ==
    /\ Len(calls) < MaxCalls
    /\ extracted_data' = Dict(d)
    /\ UNCHANGED <<data, validation_results, validation_result, calls, registry>>
    /\ UNCHANGED vars

InitDetection == ServicesIdle /\ LibraryIdle

NextDetection ==
    \/ \E d \in ExcelExtractions : extractor_extract(d)
    \/ \E d \in SchemaExtractions : processor_extract(d)
    \/ \E self \in Instances : excel_validate(self, "standard")
    \/ \E self \in Instances : schema_validate(self)

SpecDetection == InitDetection /\ [][NextDetection]_allVars

\* ---- both validators, as the services call them ------------------------------
InitFailures == InitExcel \/ InitSchema

NextFailures == NextExcel \/ NextSchema

SpecFailures == InitFailures /\ [][NextFailures]_allVars

\* ---- ParserFactory, ExtractorFactory, ValidatorFactory ----------------------
\* The parser classes and parser_class().get_supported_file_types() of each:
\* ExcelParser, and two parsers an application registers.
ParserClasses ==
    [ExcelParser |-> {"xlsx", "xls", "csv"},
     CsvParser |-> {"csv"},
     LegacyParser |-> {"xls"}]

\* The extractor and validator classes and the types they are registered for.
ExtractorClasses == {"ExcelExtractor", "PdfExtractor"}
ValidatorClasses == {"ExcelValidator", "PdfValidator"}
RegisteredTypes == {"excel", "pdf"}

\* The class attributes of the three factories before any of them is used;
\* call is the last call made on a factory and what became of it.
FactoriesUnused ==
    [_parsers |-> <<>>,
     _extractor_instance |-> FALSE, _extractor_classes |-> <<>>,
     _validator_instance |-> FALSE, _validator_classes |-> <<>>,
     call |-> [factory |-> "none"]]

\* ParserFactory.register_parser: the classes registered after the call
registered_parsers(parsers, parser_class) ==
    [file_type \in ParserClasses[parser_class] |-> parser_class] @@ parsers

\* ParserFactory.register_parser(parser_class)
register_parser(parser_class) ==
    /\ registry.type = "factories"
    /\ registry' =
          [registry EXCEPT
             !.v._parsers = registered_parsers(@, parser_class),
             !.v.call = [factory |-> "parser", method |-> "register",
                         keys |-> ParserClasses[parser_class],
                         class |-> parser_class, raised |-> FALSE]]
    /\ UNCHANGED <<data, validation_results, extracted_data, validation_result,
                   calls>>
    /\ UNCHANGED vars

\* ParserFactory.get_parser(file_type), with _initialize_parsers when no parser
\* is registered yet
get_parser(file_type) ==
    /\ registry.type = "factories"
    /\ registry' =
          [registry EXCEPT
             !.v._parsers = IF @ = <<>> THEN registered_parsers(@, "ExcelParser")
                            ELSE @,
             !.v.call = [factory |-> "parser", method |-> "get",
                         keys |-> {file_type}, class |-> "none",
                         raised |-> FALSE]]
    /\ UNCHANGED <<data, validation_results, extracted_data, validation_result,
                   calls>>
    /\ UNCHANGED vars

\* __new__ and _initialize of ExtractorFactory and of ValidatorFactory: the
\* first construction registers the default class for "excel".
Constructed(instance, classes, default_class) ==
    IF instance THEN classes ELSE ("excel" :> default_class) @@ classes

\* ExtractorFactory().register_extractor(document_type, extractor_class)
register_extractor(document_type, extractor_class) ==
    /\ registry.type = "factories"
    /\ \E classes \in {Constructed(registry.v._extractor_instance,
                                    registry.v._extractor_classes,
                                    "ExcelExtractor")} :
          registry' =
             [registry EXCEPT
                !.v._extractor_instance = TRUE,
                !.v._extractor_classes =
                   IF document_type \in DOMAIN classes THEN classes
                   ELSE (document_type :> extractor_class) @@ classes,
                !.v.call = [factory |-> "extractor", method |-> "register",
                            keys |-> {document_type}, class |-> extractor_class,
                            raised |-> document_type \in DOMAIN classes]]
    /\ UNCHANGED <<data, validation_results, extracted_data, validation_result,
                   calls>>
    /\ UNCHANGED vars

\* ValidatorFactory().register_validator(data_type, validator_class)
register_validator(data_type, validator_class) ==
    /\ registry.type = "factories"
    /\ \E classes \in {Constructed(registry.v._validator_instance,
                                    registry.v._validator_classes,
                                    "ExcelValidator")} :
          registry' =
             [registry EXCEPT
                !.v._validator_instance = TRUE,
                !.v._validator_classes =
                   IF data_type \in DOMAIN classes THEN classes
                   ELSE (data_type :> validator_class) @@ classes,
                !.v.call = [factory |-> "validator", method |-> "register",
                            keys |-> {data_type}, class |-> validator_class,
                            raised |-> data_type \in DOMAIN classes]]
    /\ UNCHANGED <<data, validation_results, extracted_data, validation_result,
                   calls>>
    /\ UNCHANGED vars

InitFactories ==
    /\ ServicesIdle
    /\ data = Null
    /\ validation_results = Null
    /\ extracted_data = Null
    /\ validation_result = Null
    /\ calls = <<>>
    /\ registry = [type |-> "factories", v |-> FactoriesUnused]

NextFactories ==
    \/ \E parser_class \in DOMAIN ParserClasses : register_parser(parser_class)
    \/ \E file_type \in {"xlsx", "pdf"} : get_parser(file_type)
    \/ \E document_type \in RegisteredTypes, extractor_class \in ExtractorClasses :
          register_extractor(document_type, extractor_class)
    \/ \E data_type \in RegisteredTypes, validator_class \in ValidatorClasses :
          register_validator(data_type, validator_class)

SpecFactories == InitFactories /\ [][NextFactories]_allVars

\* ---- resolving the extractor of a file ---------------------------------------
\* extension_map of get_extractor_for_file
extension_map ==
    [x \in {".xlsx", ".xls", ".xlsm", ".xlsb"} |-> "excel"]

\* file_extension.lower(), on the extensions the callers pass
Lower(file_extension) ==
    CASE file_extension = ".XLSX" -> ".xlsx"
      [] file_extension = ".CSV" -> ".csv"
      [] OTHER -> file_extension

\* f".{file_type}" for the file types the parser accepts, as process_document
\* of the API passes it, the other extensions of extension_map, an extension
\* of neither, and two extensions in capitals.
FileExtensionInputs ==
    {".xlsx", ".xls", ".csv", ".xlsm", ".xlsb", ".pdf", ".XLSX", ".CSV"}

\* document_type: None, "" and two types.
NoDocumentType == {"None", ""}
DocumentTypeInputs == NoDocumentType \cup RegisteredTypes

\* ExtractorFactory().get_extractor_for_file(file_extension, document_type).
\* get_extractor returns the instance of the class registered for the type
\* (cached after the first call; a registration is never replaced).
get_extractor_for_file(file_extension, document_type) ==
    /\ registry.type = "factories"
    /\ \E classes \in {Constructed(registry.v._extractor_instance,
                                    registry.v._extractor_classes,
                                    "ExcelExtractor")} :
          LET ext == Lower(file_extension)
              mapped == document_type \notin NoDocumentType
                        \/ ext \in DOMAIN extension_map
              doc_type == IF document_type \notin NoDocumentType
                          THEN document_type
                          ELSE IF mapped THEN extension_map[ext] ELSE "None"
              found == mapped /\ doc_type \in DOMAIN classes
          IN registry' =
                [registry EXCEPT
                   !.v._extractor_instance = TRUE,
                   !.v._extractor_classes = classes,
                   !.v.call = [factory |-> "extractor",
                               method |-> "get_extractor_for_file",
                               keys |-> {doc_type},
                               file_extension |-> file_extension,
                               document_type |-> document_type,
                               class |-> IF found THEN classes[doc_type]
                                         ELSE "none",
                               raised |-> ~found]]
    /\ UNCHANGED <<data, validation_results, extracted_data, validation_result,
                   calls>>
    /\ UNCHANGED vars

NextResolution ==
    \/ \E document_type \in RegisteredTypes, extractor_class \in ExtractorClasses :
          register_extractor(document_type, extractor_class)
    \/ \E file_extension \in FileExtensionInputs,
          document_type \in DocumentTypeInputs :
          get_extractor_for_file(file_extension, document_type)

SpecResolution == InitFactories /\ [][NextResolution]_allVars

\* ---- processor service: the worker limit -----------------------------------
\* PROCESSOR_WORKERS: int = 2
PROCESSOR_WORKERS == 2

\* The database when the process requests arrive: MaxTasks uploaded documents,
\* each with its pending job.
InitWorkers ==
    /\ documents = [d \in 1..MaxTasks |->
                       [status |-> "uploaded", file_extension |-> "xlsx"]]
    /\ nextDoc = MaxTasks + 1
    /\ uploads = {}
    /\ jobs = [j \in 1..MaxTasks |->
                  [document_id |-> j, status |-> "pending", progress |-> 0,
                   error |-> NoError]]
    /\ extractions = EmptyBag
    /\ runs = <<>>
    /\ tempFiles = {}
    /\ cancels = <<>>
    /\ LibraryIdle

\* POST /api/process: background_tasks.add_task(process_document, job_id,
\* document_id) once the job is found; nothing is counted or awaited first.
add_task(job_id, document_id) ==
    /\ job_id \in DOMAIN jobs
    /\ Len(runs) < MaxTasks
    /\ runs' = Append(runs, NewRun(job_id, document_id))
    /\ UNCHANGED <<documents, nextDoc, uploads, jobs, extractions, tempFiles,
                   cancels>>
    /\ UNCHANGED libraryVars

TaskIds == 1..MaxTasks

NextWorkers ==
    \/ \E j \in DOMAIN jobs : add_task(j, jobs[j].document_id)
    \/ \E r \in TaskIds : RunStart(r)
    \/ \E r \in TaskIds : RunGetDocument(r)
    \/ \E r \in TaskIds, o \in DownloadOutcomes : RunDownload(r, o)
    \/ \E r \in TaskIds, ok \in BOOLEAN : RunParse(r, ok)
    \/ \E r \in TaskIds, ok \in BOOLEAN : RunExtract(r, ok)
    \/ \E r \in TaskIds, valid \in BOOLEAN : RunValidate(r, valid)
    \/ \E r \in TaskIds, ok \in BOOLEAN : RunPersist(r, ok)
    \/ \E r \in TaskIds : RunMarkProcessed(r)
    \/ \E r \in TaskIds : RunComplete(r)

SpecWorkers == InitWorkers /\ [][NextWorkers]_vars

\* ---- jobs under a fair scheduler -------------------------------------------
\* The last status write of a run when DBClient.update_job_status catches the
\* exception of the UPDATE and returns False: the row stays as it was and
\* process_document, which does not read the return value, goes on to its
\* finally block.
RunCompleteUnwritten(r) ==
    /\ RunAt(r, "complete")
    /\ tempFiles' = RemoveTempFile(tempFiles, r)
    /\ runs' = Finished(r)
    /\ UNCHANGED <<documents, nextDoc, uploads, jobs, extractions, cancels>>
    /\ UNCHANGED libraryVars

\* The steps of background task r: every await of process_document returns or
\* raises.
RunStep(r) ==
    \/ RunStart(r)
    \/ RunGetDocument(r)
    \/ \E o \in DownloadOutcomes : RunDownload(r, o)
    \/ \E ok \in BOOLEAN : RunParse(r, ok)
    \/ \E ok \in BOOLEAN : RunExtract(r, ok)
    \/ \E valid \in BOOLEAN : RunValidate(r, valid)
    \/ \E ok \in BOOLEAN : RunPersist(r, ok)
    \/ RunMarkProcessed(r)
    \/ RunComplete(r)
    \/ RunCompleteUnwritten(r)

\* The steps of cancel request c.
CancelStep(c) ==
    \/ \E n \in BOOLEAN : cancel_job(c, n)
    \/ api_cancel_processing(c)
    \/ api_cancel_update(c)

NextLive ==
    \/ \E ext \in FileExtensions : upload_document(ext)
    \/ \E d \in DocIds, n \in BOOLEAN : create_document_job(d, n)
    \/ \E j \in JobIds : cancel_processing_job(j)
    \/ \E r \in RunIds : RunStep(r)
    \/ \E c \in CancelIds : CancelStep(c)

\* The event loop runs every task that can take a step: a background task and
\* a request handler that can go on do go on.  Requests are not obliged to
\* arrive.
Fairness ==
    /\ \A r \in RunIds : WF_vars(RunStep(r))
    /\ \A c \in CancelIds : WF_vars(CancelStep(c))

SpecLive == Init /\ [][NextLive]_vars /\ Fairness

\* ---- the two ExcelParser classes ---------------------------------------------
\* A workbook on disk is a list of sheets; a sheet has its columns, its data
\* rows (the rows below the header row) and whether pd.read_excel can read it.
\* The workbook can be opened by pd.ExcelFile or not.
MaxSheets == 2
MaxRows == 2

WorkbookSheetNames == <<"Sheet", "Sheet2">>

\* The data rows of a sheet with n rows.
Records(n) == [k \in 1..n |-> [row |-> k]]

SheetsOnDisk ==
    {sheet \in [readable : BOOLEAN, columns : 0..1,
                records : {Records(n) : n \in 0..MaxRows}] :
        Len(sheet.records) > 0 => sheet.columns > 0}

Workbooks ==
    {[openable |-> FALSE, sheets |-> <<>>]}
    \cup {[openable |-> TRUE, sheets |-> ss] :
             ss \in UNION {[1..n -> SheetsOnDisk] : n \in 1..MaxSheets}}

\* df.empty: one of the two axes has length 0
DataFrameEmpty(sheet) == sheet.columns = 0 \/ Len(sheet.records) = 0

\* The entries of result["sheets"] as a function of the sheet names.
SheetsDict(names, entry(_)) ==
    [name \in {WorkbookSheetNames[i] : i \in names} |->
        entry(CHOOSE i \in names : WorkbookSheetNames[i] = name)]

\* ExcelParser._parse_excel of the processor: an exception of pd.ExcelFile or
\* of pd.read_excel for any sheet leaves the loop and is raised again.
_parse_excel(workbook) ==
    IF \/ ~workbook.openable
       \/ \E i \in DOMAIN workbook.sheets : ~workbook.sheets[i].readable
    THEN Raised
    ELSE [sheets |->
            SheetsDict(DOMAIN workbook.sheets,
               LAMBDA i :
                  LET sheet == workbook.sheets[i]
                  IN IF DataFrameEmpty(sheet)
                     THEN [empty |-> TRUE, rows |-> 0, columns |-> 0,
                           data |-> <<>>]
                     ELSE [empty |-> FALSE, rows |-> Len(sheet.records),
                           columns |-> sheet.columns,
                           data |-> sheet.records])]

\* ExcelParser._dataframe_to_dict of the API
_dataframe_to_dict(sheet) ==
    [data |-> sheet.records,
     shape |-> [rows |-> Len(sheet.records), columns |-> sheet.columns]]

\* ExcelParser.parse of the API for an xlsx or xls file: a sheet whose read
\* raises is skipped, and so is a sheet without rows or without columns.
ExcelParser_parse(workbook) ==
    IF ~workbook.openable THEN Raised
    ELSE [sheets |->
            SheetsDict({i \in DOMAIN workbook.sheets :
                           /\ workbook.sheets[i].readable
                           /\ Len(workbook.sheets[i].records) > 0
                           /\ workbook.sheets[i].columns > 0},
                       LAMBDA i : _dataframe_to_dict(workbook.sheets[i]))]

\* parsed_data = await parser.parse(file_path, file_type): data is what the
\* call returned or raised, calls the call made last.
parser_parse(parser, workbook) ==
    /\ data' = IF parser = "api" THEN ExcelParser_parse(workbook)
               ELSE _parse_excel(workbook)
    /\ calls' = << [parser |-> parser, workbook |-> workbook] >>
    /\ UNCHANGED <<validation_results, extracted_data, validation_result,
                   registry>>
    /\ UNCHANGED vars

InitParsers == ServicesIdle /\ LibraryIdle

NextParsers ==
    \E parser \in {"api", "processor"}, workbook \in Workbooks :
       parser_parse(parser, workbook)

SpecParsers == InitParsers /\ [][NextParsers]_allVars

\* ---- validate_file -----------------------------------------------------------
\* settings.MAX_DOCUMENT_SIZE and settings.ALLOWED_EXTENSIONS
MAX_DOCUMENT_SIZE == 50000000
ALLOWED_EXTENSIONS == <<"xlsx", "xls", "csv">>

\* fastapi.status
HTTP_400_BAD_REQUEST == 400
HTTP_413_REQUEST_ENTITY_TOO_LARGE == 413
HTTP_500_INTERNAL_SERVER_ERROR == 500

\* os.path.splitext(file.filename)[1][1:] for the file names of the uploads
splitext ==
    [x \in {"report.xlsx", "old.XLS", "rows.csv", "scan.pdf", "README",
            "rows.csv.exe", ".xlsx", "macro.Xlsm"} |->
        CASE x = "report.xlsx" -> "xlsx"
          [] x = "old.XLS" -> "XLS"
          [] x = "rows.csv" -> "csv"
          [] x = "scan.pdf" -> "pdf"
          [] x = "README" -> ""
          [] x = "rows.csv.exe" -> "exe"
          [] x = ".xlsx" -> ""
          [] x = "macro.Xlsm" -> "Xlsm"]

\* str.lower() on the extensions above
lower(ext) ==
    CASE ext = "XLS" -> "xls"
      [] ext = "Xlsm" -> "xlsm"
      [] OTHER -> ext

\* The uploads: a file name, the size of the file in bytes, and whether seek
\* and tell work on file.file; and no file at all.
NoFile == [filename |-> "None"]

UploadFiles ==
    {NoFile}
    \cup [filename : DOMAIN splitext,
          size : {0, 1, 1024, MAX_DOCUMENT_SIZE - 1, MAX_DOCUMENT_SIZE,
                  MAX_DOCUMENT_SIZE + 1, 2 * MAX_DOCUMENT_SIZE},
          seekable : BOOLEAN]

HTTPException(status_code) == [raised |-> TRUE, status_code |-> status_code]

\* The try statement of validate_file: the HTTPException raised for a file
\* that is too large is an Exception, and "except Exception" follows.
check_file_size(file) ==
    LET tried == IF ~file.seekable THEN Raised
                 ELSE IF file.size > MAX_DOCUMENT_SIZE
                      THEN HTTPException(HTTP_413_REQUEST_ENTITY_TOO_LARGE)
                      ELSE [raised |-> FALSE]
    IN IF tried.raised THEN HTTPException(HTTP_500_INTERNAL_SERVER_ERROR)
       ELSE tried

\* validate_file(file): the exception it raises, or that it returned
validate_file(file) ==
    IF file = NoFile THEN HTTPException(HTTP_400_BAD_REQUEST)
    ELSE LET file_ext == lower(splitext[file.filename])
         IN IF \A i \in DOMAIN ALLOWED_EXTENSIONS : ALLOWED_EXTENSIONS[i] # file_ext
            THEN HTTPException(HTTP_400_BAD_REQUEST)
            ELSE check_file_size(file)

\* An upload request up to the return of validate_file(file): data is what
\* the call returned or raised, calls the call made last.
upload_validate_file(file) ==
    /\ data' = validate_file(file)
    /\ calls' = << [function |-> "validate_file", file |-> file] >>
    /\ UNCHANGED <<validation_results, extracted_data, validation_result,
                   registry>>
    /\ UNCHANGED vars

InitUploads == ServicesIdle /\ LibraryIdle

NextUploads == \E file \in UploadFiles : upload_validate_file(file)

SpecUploads == InitUploads /\ [][NextUploads]_allVars

\* ---- properties ----------------------------------------------------------
LegalTransitions ==
    {<<"pending", "processing">>, <<"processing", "completed">>,
     <<"processing", "failed">>, <<"pending", "canceled">>,
     <<"processing", "canceled">>}

\* The extractions rows of one job.
JobExtractions(job_id) ==
    [e \in {x \in BagToSet(extractions) : x.job_id = job_id} |-> extractions[e]]

ExtractionCount(job_id) == BagCardinality(JobExtractions(job_id))

\* A step of run r that ends the task.
RunEnds(r) == runs[r].pc # "done" /\ runs'[r].pc = "done"

\* C1: every change of a job's status is one of pending->processing,
\* processing->completed, processing->failed, pending->canceled,
\* processing->canceled; a terminal status never changes.
C1_LegalTransitionsOnly ==
    [][\A j \in DOMAIN jobs :
          jobs'[j].status # jobs[j].status =>
             <<jobs[j].status, jobs'[j].status>> \in LegalTransitions]_vars

\* C2: a cancel request changes a job's status only when the status is pending
\* or processing at the moment the change is applied; a completed or failed job
\* is never turned into a canceled one.
C2_CancelOnlyWhenCancellable ==
    [][\A j \in DOMAIN jobs :
          (jobs'[j].status = "canceled" /\ jobs[j].status # "canceled") =>
             jobs[j].status \in Cancellable]_vars

\* C3: once a cancel call that found the job processing has returned, the job's
\* status is canceled and stays canceled, and its progress never changes again.
C3_NoUpdateAfterCancelReturns ==
    [][\A c \in DOMAIN cancels :
          (cancels[c].pc = "returned" /\ cancels[c].seen = "processing") =>
             /\ jobs[cancels[c].job_id].status = "canceled"
             /\ jobs'[cancels[c].job_id].status = "canceled"
             /\ jobs'[cancels[c].job_id].progress =
                   jobs[cancels[c].job_id].progress]_vars

\* C4: when the job is canceled at a stage boundary, the pipeline enters no
\* further stage: the only step a run of a canceled job takes is to stop, it
\* writes no Extraction and does not mark the document processed.
C4_NoStageAfterCancel ==
    [][\A r \in DOMAIN runs :
          (jobs[runs[r].job_id].status = "canceled" /\ runs'[r] # runs[r]) =>
             /\ runs'[r].pc = "done"
             /\ extractions' = extractions
             /\ documents' = documents]_vars

\* C5: the progress values written to a job record are non-decreasing and stay
\* within 0..100, on every path.
C5_ProgressNonDecreasing ==
    [][\A j \in DOMAIN jobs :
          /\ jobs'[j].progress >= jobs[j].progress
          /\ jobs'[j].progress \in 0..100]_vars

\* C6: a run that ends with the job failed leaves Job.error set and the
\* document's status error; a run that ends with the job completed leaves the
\* document's status processed.
C6_DocumentFollowsJob ==
    [][\A r \in DOMAIN runs :
          RunEnds(r) =>
             LET j == runs[r].job_id
                 d == runs[r].document_id
             IN /\ jobs'[j].status = "failed" =>
                      /\ jobs'[j].error # NoError
                      /\ d \in DOMAIN documents' =>
                            documents'[d].status = "error"
                /\ jobs'[j].status = "completed" =>
                      /\ d \in DOMAIN documents'
                      /\ documents'[d].status = "processed"]_vars

\* C7: once parse and extract have succeeded, no validation result fails the
\* job: whatever validate returns (valid == false included), the run goes on
\* stage by stage, the Extraction it writes carries the validation result, no
\* step of it turns the job failed, and its last step leaves the job completed.
AfterExtract == {"validate", "persist", "mark_processed", "complete"}

C7_InvalidNeverFails ==
    [][\A r \in DOMAIN runs :
          (runs[r].pc \in AfterExtract /\ runs'[r] # runs[r]) =>
             LET j == runs[r].job_id
                 d == runs[r].document_id
             IN /\ runs[r].pc = "validate" => runs'[r].pc = "persist"
                /\ runs[r].pc = "persist" =>
                      /\ runs'[r].pc = "mark_processed"
                      /\ extractions' \in
                            {extractions,
                             create_extraction(extractions, j, d,
                                runs[r].validation_results = "valid")}
                /\ runs[r].pc = "mark_processed" => runs'[r].pc = "complete"
                /\ runs[r].pc = "complete" =>
                      /\ runs'[r].pc = "done"
                      /\ jobs'[j].status = "completed"
                /\ jobs'[j].status = "failed" => jobs[j].status = "failed"]_vars

\* C7 witness: a run whose validation returned valid == false has ended with the
\* job completed and an Extraction carrying valid == false.
C7_Witness ==
    \E r \in DOMAIN runs :
       /\ runs[r].pc = "done"
       /\ runs[r].validation_results = "invalid"
       /\ jobs[runs[r].job_id].status = "completed"
       /\ \E e \in BagToSet(extractions) :
             e.job_id = runs[r].job_id /\ ~e.valid

\* C8: every completed job has exactly one Extraction record and no job has
\* more than one.
C8_ExactlyOneExtraction ==
    \A j \in DOMAIN jobs :
       /\ ExtractionCount(j) <= 1
       /\ jobs[j].status = "completed" => ExtractionCount(j) = 1

\* C9: once a job run has ended, no temporary file created for it exists.
C9_TempFileRemoved ==
    \A r \in DOMAIN runs : runs[r].pc = "done" => r \notin tempFiles

\* C10: every Job record's document_id refers to a Document record that exists.
C10_JobReferencesDocument ==
    \A j \in DOMAIN jobs : jobs[j].document_id \in DOMAIN documents

\* C10 witness: one document has been deleted, and a job whose run has
\* completed still has its (processed) document.
C10_Witness ==
    /\ \E d \in 1..(nextDoc - 1) : d \notin DOMAIN documents
    /\ \E r \in DOMAIN runs :
          /\ runs[r].pc = "done"
          /\ runs[r].document_id = jobs[runs[r].job_id].document_id
          /\ jobs[runs[r].job_id].status = "completed"
          /\ jobs[runs[r].job_id].document_id \in DOMAIN documents

\* The jobs whose pipeline is between its first and its last step.
ExecutingJobs ==
    {runs[r].job_id : r \in {x \in DOMAIN runs : runs[x].pc \notin {"queued", "done"}}}

\* C11: the number of jobs whose pipeline is executing at the same time never
\* exceeds PROCESSOR_WORKERS, however many process requests arrive.
C11_WorkerLimit ==
    Cardinality(ExecutingJobs) <= PROCESSOR_WORKERS

\* ---- properties of ExcelValidator.validate -------------------------------
\* validate has returned.
Returned == "valid" \in DOMAIN validation_results

\* The results carry the three tiers.
HasTiers == {"basic", "schema", "custom"} \subseteq DOMAIN validation_results.details

\* The data as the caller handed it to the last call.
LastInput == calls[Len(calls)].input

\* C12: at level basic only the basic tier is executed: details.custom.checks
\* and details.schema.checks are [], and valid is the basic tier's result.
C12_BasicRunsBasicOnly ==
    (Returned /\ validation_results.level = "basic") =>
       /\ HasTiers
       /\ validation_results.details.custom.checks = <<>>
       /\ validation_results.details.schema.checks = <<>>
       /\ validation_results.valid = validation_results.details.basic.valid

\* C13: at level strict the results have the checks of all three tiers
\* populated, also when the basic tier is not valid.
C13_StrictPopulatesAllTiers ==
    (Returned /\ validation_results.level = "strict") =>
       /\ HasTiers
       /\ validation_results.details.basic.checks # <<>>
       /\ validation_results.details.schema.checks # <<>>
       /\ validation_results.details.custom.checks # <<>>

BasicFailedAt(level) ==
    /\ Returned /\ validation_results.level = level /\ HasTiers
    /\ ~validation_results.details.basic.valid

C15_StandardRunsSchema ==
    BasicFailedAt("standard") =>
       /\ validation_results.details.schema.checks # <<>>
       /\ validation_results.details.custom.checks = <<>>
       /\ ~validation_results.valid

\* C15 as amended: at level standard a failed basic tier ends the validation:
\* the schema tier is not run (details.schema.checks is []), the custom tier is
\* not run, and valid is false; the schema tier runs when the basic tier passed.
C15_StandardStopsAfterFailedBasic ==
    (Returned /\ validation_results.level = "standard" /\ HasTiers) =>
       /\ validation_results.details.custom.checks = <<>>
       /\ ~validation_results.details.basic.valid =>
             /\ validation_results.details.schema.checks = <<>>
             /\ ~validation_results.valid
       /\ validation_results.details.basic.valid =>
             /\ validation_results.details.schema.checks # <<>>
             /\ validation_results.valid = validation_results.details.schema.valid

\* validate at level standard has returned the result of a failed basic tier
\* for data that has no tables.
C15_StandardBasicFailed ==
    /\ BasicFailedAt("standard")
    /\ "tables" \notin DOMAIN LastInput

\* C16: at level basic with the type excel_table the result is valid only when
\* the data handed in has a tables list and a metadata dict; data without
\* tables, and data without metadata, is not valid and has the error that names
\* the missing field.
C16_BasicNeedsTablesAndMetadata ==
    (/\ Returned /\ validation_results.level = "basic"
     /\ ReportedType(validation_results) = "excel_table") =>
       /\ validation_results.valid =>
             /\ IsList(LastInput, "tables")
             /\ "metadata" \in DOMAIN LastInput
             /\ LastInput["metadata"].type = "dict"
       /\ "tables" \notin DOMAIN LastInput =>
             /\ ~validation_results.valid
             /\ \E i \in DOMAIN validation_results.errors :
                   validation_results.errors[i] = MissingTables
       /\ "metadata" \notin DOMAIN LastInput =>
             /\ ~validation_results.valid
             /\ \E i \in DOMAIN validation_results.errors :
                   validation_results.errors[i] = MissingMetadata

\* ---- properties of SchemaValidator ---------------------------------------
\* The calls of _normalize_data made so far.
Normalizations == {i \in DOMAIN calls : calls[i].validator = "normalize"}

\* The value is a str without the character.
Lacks(value, c) == value.type = "str" /\ \A i \in DOMAIN value.v : value.v[i] # c

\* C18: normalizing normalized data again with the same schema type changes
\* nothing; a date that is an ISO date and an amount that is a number are
\* returned unchanged; an amount without a digit, a date with none of the
\* separators of the recognized formats and a date that is no str are returned
\* as they were; no key is added, removed or changed besides total_amount and
\* date, and every call returns.
C18_NormalizeIdempotent ==
    \A i \in Normalizations :
       LET before == calls[i].input
           after == calls[i].output
       IN /\ \A j \in Normalizations :
                (/\ j < i
                 /\ calls[j].schema_type = calls[i].schema_type
                 /\ before = calls[j].output) => after = before
          /\ DOMAIN after = DOMAIN before
          /\ \A k \in DOMAIN before \ {"total_amount", "date"} :
                after[k] = before[k]
          /\ "total_amount" \in DOMAIN before =>
                /\ before["total_amount"].type = "number" =>
                      after["total_amount"] = before["total_amount"]
                /\ (\A c \in DOMAIN DigitChars :
                       Lacks(before["total_amount"], DigitChars[c])) =>
                      after["total_amount"] = before["total_amount"]
          /\ "date" \in DOMAIN before =>
                /\ before["date"].type # "str" =>
                      after["date"] = before["date"]
                /\ (before["date"].type = "str" /\ IsIsoDate(before["date"].v)) =>
                      after["date"] = before["date"]
                /\ (Lacks(before["date"], "/") /\ Lacks(before["date"], ".")) =>
                      after["date"] = before["date"]

\* Data whose amount and date a first normalization as invoice has changed has
\* been normalized as invoice again.
C18_NormalizedTwice ==
    \E i, j \in Normalizations :
       /\ i < j
       /\ calls[i].schema_type = "invoice" /\ calls[j].schema_type = "invoice"
       /\ calls[i].output["total_amount"] # calls[i].input["total_amount"]
       /\ calls[i].output["date"] # calls[i].input["date"]
       /\ calls[j].input = calls[i].output

\* The calls of SchemaValidator.validate made so far.
SchemaValidations == {i \in DOMAIN calls : calls[i].validator = "schema"}

\* The data handed to the last call of SchemaValidator.validate.
LastValidated ==
    calls[CHOOSE i \in SchemaValidations : \A j \in SchemaValidations : j <= i].input

\* C19: a validation that fails is reported in the result and never raised:
\* every call of SchemaValidator.validate and of ExcelValidator.validate
\* returns a result that contains valid; for data that lacks a required field
\* of the schema selected for it the result of SchemaValidator.validate has
\* valid false and at least one error; the result of ExcelValidator's except
\* branch has valid false and one error.
C19_FailuresAreResults ==
    /\ SchemaValidations # {} =>
          /\ "valid" \in DOMAIN validation_result
          /\ LET selected == schemas[_determine_schema_type(1, LastValidated)]
             IN (\E i \in DOMAIN selected.required :
                    selected.required[i] \notin DOMAIN LastValidated) =>
                   /\ ~validation_result.valid
                   /\ Len(validation_result.errors) >= 1
    /\ (\E i \in DOMAIN calls : calls[i].validator = "excel") =>
          /\ "valid" \in DOMAIN validation_results
          /\ ~HasTiers =>
                /\ ~validation_results.valid
                /\ Len(validation_results.errors) = 1

\* SchemaValidator.validate has returned its result for {"invalid_field": ...}.
C19_InvalidFieldReported ==
    /\ SchemaValidations # {}
    /\ DOMAIN LastValidated = {"invalid_field"}
    /\ ~validation_result.valid
    /\ Len(validation_result.errors) = 2

\* ---- properties of the schema-type detection -----------------------------
\* The calls of the two validate methods made so far.
Validations == {i \in DOMAIN calls : calls[i].validator \in {"excel", "schema"}}

\* C17: two validate calls of the same validator class on equal data report
\* the same schema type, whichever instance is called and whatever it validated
\* before; data that validate has returned reports the same type when it is
\* validated again.
C17_DetectionDeterministic ==
    \A i, j \in Validations :
       /\ (/\ calls[i].validator = calls[j].validator
           /\ calls[i].input = calls[j].input) =>
             calls[i].schema_type = calls[j].schema_type
       /\ (/\ i < j
           /\ calls[i].validator = "excel" /\ calls[j].validator = "excel"
           /\ calls[j].input = calls[i].output) =>
             calls[i].schema_type = calls[j].schema_type

\* An instance that has validated data of one type has then validated data
\* that another instance validates as well, and the detection ran in all three
\* calls.
C17_SameDataAfterOtherData ==
    \E i, j, k \in Validations :
       /\ i < j /\ j # k
       /\ calls[i].validator = "excel" /\ calls[j].validator = "excel"
       /\ calls[k].validator = "excel"
       /\ calls[i].self = calls[j].self /\ calls[k].self # calls[j].self
       /\ calls[j].input = calls[k].input
       /\ calls[i].schema_type \notin {calls[j].schema_type, "none"}
       /\ \A c \in {i, j, k} : "metadata" \notin DOMAIN calls[c].input

\* ---- properties of the factories -----------------------------------------
\* The register call just made on the factory names a key that was registered
\* in classes before the call.
RegistersAgain(factory, classes) ==
    /\ registry'.v.call.factory = factory
    /\ registry'.v.call.method = "register"
    /\ registry'.v.call.keys \cap DOMAIN classes # {}

\* The classes registered before the step are registered unchanged after it,
\* and a register call that names one of their keys is rejected.
KeepsRegistrations(factory, classes, classes_after) ==
    /\ \A key \in DOMAIN classes :
          key \in DOMAIN classes_after /\ classes_after[key] = classes[key]
    /\ RegistersAgain(factory, classes) => registry'.v.call.raised

\* C20: in each of the three registries a register call for a key that is
\* already registered is rejected and the key keeps the implementation it was
\* registered with, in every step of every sequence of calls.
C20_SingleRegistration ==
    [][registry.type = "factories" =>
          /\ KeepsRegistrations("parser", registry.v._parsers,
                                registry'.v._parsers)
          /\ KeepsRegistrations("extractor", registry.v._extractor_classes,
                                registry'.v._extractor_classes)
          /\ KeepsRegistrations("validator", registry.v._validator_classes,
                                registry'.v._validator_classes)]_allVars

\* ---- progress checkpoints ------------------------------------------------
\* The run is the only one started for its job and no cancel was requested
\* for the job: every write to the job's row is a write of this run.
Undisturbed(r) ==
    /\ \A x \in DOMAIN runs : x # r => runs[x].job_id # runs[r].job_id
    /\ \A c \in DOMAIN cancels : cancels[c].job_id # runs[r].job_id

\* The calls of process_document in the order of the code; a run at position
\* pc has returned from every call before pc and from none after it.
Stages ==
    <<"queued", "get_document", "download", "parse", "extract", "validate",
      "persist", "mark_processed", "complete", "done">>

StageOf(pc) == CHOOSE i \in DOMAIN Stages : Stages[i] = pc

\* The run has returned from the call named by stage.
Past(r, stage) == StageOf(runs[r].pc) > StageOf(stage)

\* C22 as stated: in a run that nothing disturbed and that has not failed, a
\* progress of 10 or more is on record only once get_document has returned the
\* document, 20 or more only once parse has returned, 40 or more only once
\* parse has returned and extraction starts, 70 or more only once extract has
\* returned, 90 or more only once validate has returned, and 100 only once
\* create_extraction has returned.
C22_ProgressAtStageBoundaries ==
    \A r \in DOMAIN runs :
       (/\ Undisturbed(r)
        /\ jobs[runs[r].job_id].status \in {"processing", "completed"})
       => LET progress == jobs[runs[r].job_id].progress
          IN  /\ progress >= 10 => Past(r, "get_document")
              /\ progress >= 20 => Past(r, "parse")
              /\ progress >= 40 => Past(r, "parse")
              /\ progress >= 70 => Past(r, "extract")
              /\ progress >= 90 => Past(r, "validate")
              /\ progress >= 100 => Past(r, "persist")

\* C22 amended: in a run that nothing disturbed and that has not failed, the
\* progress on record is 10 from the start of the run until the download has
\* returned, 20 from then until parse has returned, 40 while extract runs, 70
\* while validate runs, 90 from the return of validate until the document has
\* been marked processed, and 100 once the run has ended: the values are
\* recorded in the order 10, 20, 40, 70, 90, 100.
C22_ProgressFollowsCalls ==
    \A r \in DOMAIN runs :
       (/\ Undisturbed(r)
        /\ jobs[runs[r].job_id].status \in {"processing", "completed"})
       => LET progress == jobs[runs[r].job_id].progress
              pc == runs[r].pc
          IN  /\ pc \in {"get_document", "download"} => progress = 10
              /\ pc = "parse" => progress = 20
              /\ pc = "extract" => progress = 40
              /\ pc = "validate" => progress = 70
              /\ pc \in {"persist", "mark_processed", "complete"} => progress = 90
              /\ pc = "done" => progress = 100

\* C22 witness: a run that nothing disturbed has ended with the job completed
\* at progress 100 and its Extraction stored.
C22_Witness ==
    \E r \in DOMAIN runs :
       /\ Undisturbed(r)
       /\ runs[r].pc = "done"
       /\ jobs[runs[r].job_id].status = "completed"
       /\ jobs[runs[r].job_id].progress = 100
       /\ ExtractionCount(runs[r].job_id) = 1
\* ---- one run per job -----------------------------------------------------
\* The runs of process_document that have started for the job.
StartedRuns(job_id) ==
    {r \in DOMAIN runs : runs[r].job_id = job_id /\ runs[r].pc # "queued"}

\* C28: at most one run of the pipeline is ever started for a job, and a run
\* starts only for a job that is pending: no step starts a run for a job that
\* is processing, completed, failed or canceled, or moves such a job back to
\* processing.
C28_AtMostOneRunPerJob ==
    [][\A r \in DOMAIN runs :
          (runs[r].pc = "queued" /\ runs'[r].pc # "queued")
          => /\ StartedRuns(runs[r].job_id) = {}
             /\ jobs[runs[r].job_id].status = "pending"]_vars
\* ---- detection of the data type -------------------------------------------
\* data.metadata.document_type names a supported type.
TypeGiven(d) ==
    /\ "metadata" \in DOMAIN d
    /\ d["metadata"].type = "dict"
    /\ LET given == Get(d["metadata"].v, "document_type", Null)
       IN Truthy(given) /\ given.v \in SUPPORTED_DATA_TYPES

\* The number of (name, pattern) pairs in which the pattern occurs in the name.
Matches(names, patterns) ==
    Cardinality({m \in (DOMAIN names) \X patterns :
                    m[2] \in PatternsIn(names[m[1]])})

\* The score of the i-th registered type on the data: 2 per sheet-name match
\* and 1 per header match.
Score(i, d) ==
    2 * Matches(SheetNamesOf(d), data_type_patterns[i].sheet_names)
    + Matches(HeadersOf(d), data_type_patterns[i].headers)

\* The validate calls that detected the type of the data they were given.
Detections ==
    {c \in DOMAIN calls :
        /\ calls[c].validator = "excel"
        /\ ~TypeGiven(calls[c].input)
        /\ calls[c].schema_type # "none"}

\* The registered types whose Score on the data is the highest.
Best(d) ==
    {i \in DOMAIN data_type_patterns :
        \A k \in DOMAIN data_type_patterns : Score(k, d) <= Score(i, d)}

\* The type is one with the highest score if some score is not zero, and
\* excel_table if every score is zero.
HighestOrDefault(d, data_type) ==
    IF \E i \in DOMAIN data_type_patterns : Score(i, d) > 0
    THEN \E i \in Best(d) : data_type_patterns[i].data_type = data_type
    ELSE data_type = "excel_table"

CustomRan ==
    /\ Returned
    /\ HasTiers
    /\ validation_results.details.custom.checks # <<>>

\* The custom checks of the results that failed with the given severity.
FailedCustom(severity) ==
    LET checks == validation_results.details.custom.checks
    IN {checks[i] : i \in {k \in DOMAIN checks :
                              /\ ~checks[k].passed
                              /\ checks[k].severity = severity}}

\* The items of a list.
Items(list) == {list[i] : i \in DOMAIN list}

\* C26: whenever the custom tier ran, it is valid exactly when no failed check
\* has severity error; a failed check of severity warning is reported in
\* warnings and not in errors, a failed check of severity error in errors;
\* and the overall result is valid exactly when the basic and schema tiers
\* are valid and no custom check of severity error failed.
C26_OnlyErrorsInvalidate ==
    CustomRan =>
       /\ validation_results.details.custom.valid = (FailedCustom("error") = {})
       /\ \A c \in FailedCustom("warning") :
             /\ c.name \in Items(validation_results.warnings)
             /\ c.name \notin Items(validation_results.errors)
       /\ \A c \in FailedCustom("error") :
             c.name \in Items(validation_results.errors)
       /\ validation_results.valid =
             (/\ validation_results.details.basic.valid
              /\ validation_results.details.schema.valid
              /\ FailedCustom("error") = {})

\* C26 witness: validate has returned a valid result whose custom tier has a
\* failed check of severity warning.
C26_Witness ==
    /\ CustomRan
    /\ FailedCustom("warning") # {}
    /\ validation_results.valid
\* ---- what validate does to the data it is given ----------------------------
\* The step is a call of validate of the given validator class.
ValidateStep(validator) ==
    /\ Len(calls') = Len(calls) + 1
    /\ calls'[Len(calls')].validator = validator

\* C29 as stated: a call of validate leaves the data it was given as it was,
\* for ExcelValidator (data) and for SchemaValidator (extracted_data, which is
\* what the processor persists).
C29_ValidateLeavesData ==
    [][(ValidateStep("excel") \/ ValidateStep("schema"))
       => data' = data /\ extracted_data' = extracted_data]_allVars

\* C29 amended: SchemaValidator.validate leaves the data it was given as it
\* was, so the processor persists what the extractor returned;
\* ExcelValidator.validate changes the data it was given only when the type
\* was not given and it detected one, and then only by setting
\* data.metadata.document_type to the detected type.
C29_OnlyDetectedTypeWritten ==
    [][/\ ValidateStep("schema") => data' = data /\ extracted_data' = extracted_data
       /\ ValidateStep("excel") =>
             /\ extracted_data' = extracted_data
             /\ data' # data =>
                   LET metadata == Get(data.v, "metadata", EmptyDict)
                       data_type == calls'[Len(calls')].schema_type
                   IN /\ ~TypeGiven(data.v)
                      /\ data_type \in SUPPORTED_DATA_TYPES
                      /\ data'.v = ("metadata" :>
                                      Dict(("document_type" :> Str(data_type))
                                           @@ metadata.v)) @@ data.v]_allVars

\* C29 witness: ExcelValidator.validate has returned and left the detected
\* type in the data it was given, which had no metadata.
C29_Witness ==
    \E c \in DOMAIN calls :
       /\ calls[c].validator = "excel"
       /\ "metadata" \notin DOMAIN calls[c].input
       /\ calls[c].output # calls[c].input
       /\ calls[c].output["metadata"] =
             Dict([document_type |-> Str(calls[c].schema_type)])
\* ---- termination of jobs ---------------------------------------------------
\* C27: under a fair scheduler every job that has been created is eventually
\* completed, failed or canceled, also when the POST to the processor failed
\* at its creation and when a write of its status failed.
C27_EveryJobTerminates ==
    \A j \in JobIds :
       (j \in DOMAIN jobs)
       ~> (j \in DOMAIN jobs /\ jobs[j].status \in TerminalStatuses)
\* ---- properties of the parsers ---------------------------------------------
\* The sheets of the workbook parsed last, by position.
ParsedSheets == DOMAIN calls[1].workbook.sheets

\* The number of rows the entry of a sheet reports.
ReportedRows(entry) ==
    IF "shape" \in DOMAIN entry THEN entry.shape.rows ELSE entry.rows

\* C21: after parsing a workbook that can be opened and whose sheets can all
\* be read, parse has returned, every empty sheet has an entry in sheets with
\* empty true and data [], and every sheet that is not empty has an entry
\* whose row count is the number of data rows of the sheet.
C21_EmptySheetsReported ==
    (/\ calls # <<>>
     /\ calls[1].workbook.openable
     /\ \A i \in ParsedSheets : calls[1].workbook.sheets[i].readable)
    => /\ "sheets" \in DOMAIN data
       /\ \A i \in ParsedSheets :
             LET sheet == calls[1].workbook.sheets[i]
                 name == WorkbookSheetNames[i]
             IN /\ name \in DOMAIN data.sheets
                /\ IF DataFrameEmpty(sheet)
                   THEN /\ "empty" \in DOMAIN data.sheets[name]
                        /\ data.sheets[name].empty
                        /\ data.sheets[name].data = <<>>
                   ELSE ReportedRows(data.sheets[name]) = Len(sheet.records)

\* C24: after parsing a workbook that can be opened, parse has returned a
\* document, also when a sheet could not be read, and the document has an
\* entry for every sheet that could be read and has rows.
C24_BadSheetSkipped ==
    (calls # <<>> /\ calls[1].workbook.openable)
    => /\ "sheets" \in DOMAIN data
       /\ \A i \in ParsedSheets :
             LET sheet == calls[1].workbook.sheets[i]
             IN (sheet.readable /\ ~DataFrameEmpty(sheet))
                => WorkbookSheetNames[i] \in DOMAIN data.sheets
\* ---- resolution of the extractor ---------------------------------------------
\* C25: get_extractor_for_file called without a document type for the
\* extension of a file type the parser accepts (xlsx, xls, csv) returns an
\* extractor and does not raise.
C25_AcceptedTypesResolve ==
    (/\ registry.v.call.factory = "extractor"
     /\ registry.v.call.method = "get_extractor_for_file"
     /\ registry.v.call.document_type \in NoDocumentType
     /\ \E file_type \in ParserClasses["ExcelParser"] :
           Lower(registry.v.call.file_extension)
              = [xlsx |-> ".xlsx", xls |-> ".xls", csv |-> ".csv"][file_type])
    => ~registry.v.call.raised
\* ---- statuses of validate_file -----------------------------------------------
\* The extension of the file validated last is one of xlsx, xls and csv, in
\* small or capital letters.
ExtensionAllowed ==
    splitext[calls[1].file.filename] \in {"xlsx", "xls", "csv", "XLS"}

\* C30: validate_file rejects a file with an extension that is not allowed
\* with 400, a file with an allowed extension and more than MAX_DOCUMENT_SIZE
\* bytes with 413, answers 500 only when the size could not be determined,
\* and accepts a file with an allowed extension of at most MAX_DOCUMENT_SIZE
\* bytes.
C30_OwnStatusPerRejection ==
    (calls # <<>> /\ calls[1].file # NoFile) =>
       LET file == calls[1].file
           Rejected(status_code) ==
              data.raised /\ data.status_code = status_code
       IN /\ ~ExtensionAllowed => Rejected(HTTP_400_BAD_REQUEST)
          /\ (ExtensionAllowed /\ file.seekable
                 /\ file.size > MAX_DOCUMENT_SIZE)
             => Rejected(HTTP_413_REQUEST_ENTITY_TOO_LARGE)
          /\ Rejected(HTTP_500_INTERNAL_SERVER_ERROR) => ~file.seekable
          /\ (ExtensionAllowed /\ file.seekable
                 /\ file.size <= MAX_DOCUMENT_SIZE)
             => ~data.raised
====
